---- MODULE Spec2Model ----
(***************************************************************************)
(* Model of the laminar transaction ingester: the tx-iterator process      *)
(* (leader loop, support loop, promotion), the relational store it shares  *)
(* with the tx-puller workers, and the RPC node it polls.                   *)
(***************************************************************************)
EXTENDS Integers, Sequences, FiniteSets, TLC

(***************************************************************************)
(* Bounds of the model.                                                    *)
(***************************************************************************)
\* number of transactions the RPC node can come to know (seqnums 0..MaxSeq-1)
MaxSeq == 4
\* consts::FETCH_TX_DIGESTS_BATCH scaled down (the program uses 100)
FETCH_TX_DIGESTS_BATCH == 3
\* consts::QUERY_TX_DIGESTS_BATCH scaled down (the program uses 1024)
QUERY_TX_DIGESTS_BATCH == 2
\* conf.investigate_if_tx_only_observed_on_rpc_for in clock ticks (30 s)
InvestigateAfter == 1
\* longest FIFO of RPC-only observations explored
MaxPending == 3
\* number of rows another replica writes into the table
MaxOtherRows == 2
\* number of tx-puller processes
NumPullers == 2
\* conf.batch_size of the puller scaled down (BATCH_SIZE defaults to 10)
BATCH_SIZE == 2
\* rows of table `digests` when the pullers start
MaxRows == 3

\* polls of one fetch_digests call that are followed
MaxPolls == 2

\* the store operations on their own: distinct digests, longest batch
NumStoreDigests == 2
MaxBatch == 2

VARIABLES
    total,                        \* RPC node: number of transactions it knows
    tbl_txs,                      \* store: table `txs`, in id order
    tbl_digests,                  \* store: table `digests`, in id order
    is_leader,                    \* StatusReport.is_leader
    next_fetch_from_seqnum,       \* StatusReport.next_fetch_from_seqnum
    pc,                           \* position of the tx-iterator process
    spawned_as,                   \* Conf.spawned_as
    fetch_from_seqnum,            \* local of leader::start / support::start
    digests,                      \* leader::start: prefetched batch
    latest_db_digest,             \* support::start
    db_only_digests,              \* support::start
    rpc_only_digests,             \* support::start
    rpc_only_digests_timestamps,  \* support::start
    handed,                       \* history: batches given to insert_digests
    rpc_call,                     \* the RPC half of a join whose db half failed
    boot_seqnum,                  \* history: the seqnum published at boot
    drained,                      \* result of pop_observed_digests on its own
    ppc,                          \* position of each tx-puller process
    claimed,                      \* rows locked by each puller's transaction
    ids_to_mark_processed,        \* process_next_batch, per puller
    puller_txs,                   \* process_next_batch: txs, per puller
    call_site,                    \* an RPC call on its own: where it is made
    call_from,                    \* its start_from_seqnum / seqnum argument
    call_pc,                      \* its position
    retries,                      \* retry: retries left
    wait_ms,                      \* retry: next wait
    attempts,                     \* history: runs of job() in this retry
    slept,                        \* history: waits of this retry, in ms
    polls,                        \* history: polls of fetch_digests
    call_result,                  \* what the call returned to its caller
    interest_tx,                  \* a classification on its own: the response
    interest_bloom,               \* the keys its filter answers true for
    interest_result,              \* what is_tx_of_interest returned
    initial_seq_num,              \* Conf: INITIAL_SEQ_NUM, <<>> when unset
    query,                        \* insert_digests on its own: its statement
    initial_db_only_digests,      \* the selects on their own: the bootstrap's
    db_stream                     \* history: what the later selects returned

vars == <<total, tbl_txs, tbl_digests, is_leader, next_fetch_from_seqnum, pc,
          spawned_as, fetch_from_seqnum, digests, latest_db_digest,
          db_only_digests, rpc_only_digests, rpc_only_digests_timestamps,
          handed, rpc_call, boot_seqnum, drained, ppc, claimed,
          ids_to_mark_processed, puller_txs, call_site, call_from, call_pc,
          retries, wait_ms, attempts, slept, polls, call_result,
          interest_tx, interest_bloom, interest_result, initial_seq_num,
          query, initial_db_only_digests, db_stream>>

\* the state of the store stream looked at on its own
streamVars == <<initial_db_only_digests, db_stream>>

\* the state of a classification looked at on its own
interestVars == <<interest_tx, interest_bloom, interest_result>>

\* the state of an RPC call looked at on its own
callVars == <<call_site, call_from, call_pc, retries, wait_ms, attempts, slept,
              polls, call_result>>

\* what the tx-iterator process and its environment leave alone
pullerVars ==
    <<boot_seqnum, drained, ppc, claimed, ids_to_mark_processed, puller_txs,
      callVars, interestVars, initial_seq_num,
      query, streamVars>>

(***************************************************************************)
(* Helpers on sequences.                                                   *)
(***************************************************************************)
Range(s) == {s[i] : i \in 1..Len(s)}

Last(s) == s[Len(s)]

Min(a, b) == IF a < b THEN a ELSE b

\* the first n elements of s (all of s when it is shorter)
Take(s, n) == SubSeq(s, 1, Min(n, Len(s)))

(***************************************************************************)
(* The RPC node.  The transaction at seqnum s has digest DigestAt(s); the  *)
(* node knows the seqnums 0..total-1.                                       *)
(***************************************************************************)
Seqnums == 0..(MaxSeq - 1)

DigestAt(s) == 100 + s

AllDigests == {DigestAt(s) : s \in Seqnums}

\* get_transactions_in_range(start, end): the pairs (seqnum, digest) of the
\* half-open range [start, end) that the node knows, in seqnum order
get_transactions_in_range(start, end) ==
    LET hi == Min(end, total)
    IN  IF hi <= start THEN <<>>
        ELSE [i \in 1..(hi - start) |->
                  [seq |-> start + i - 1, digest |-> DigestAt(start + i - 1)]]

\* rpc::fetch_digests: defined once the polled range is non-empty
fetch_digests_ready(start_from_seqnum) ==
    get_transactions_in_range(start_from_seqnum,
        start_from_seqnum + FETCH_TX_DIGESTS_BATCH) # <<>>

fetch_digests_RequestedEnd(start_from_seqnum) ==
    LET txs == get_transactions_in_range(start_from_seqnum,
                   start_from_seqnum + FETCH_TX_DIGESTS_BATCH)
    IN  [seq_num |-> start_from_seqnum + FETCH_TX_DIGESTS_BATCH - 1,
         digests |-> [i \in 1..Len(txs) |-> txs[i].digest]]

fetch_digests(start_from_seqnum) ==
    LET txs == get_transactions_in_range(start_from_seqnum,
                   start_from_seqnum + FETCH_TX_DIGESTS_BATCH)
    IN  [seq_num |-> Last(txs).seq,
         digests |-> [i \in 1..Len(txs) |-> txs[i].digest]]

(***************************************************************************)
(* The store as the tx-iterator's db module sees it: table `txs`.  A row's *)
(* id is its position; `by` records which process wrote the row, `order`   *)
(* is the column the puller fills (0 when NULL).                           *)
(***************************************************************************)
TxsDigests == {tbl_txs[i].digest : i \in 1..Len(tbl_txs)}

\* the id of the row holding digest d, 0 when there is none
IdOf(tbl, d) ==
    IF \E i \in 1..Len(tbl) : tbl[i].digest = d
    THEN CHOOSE i \in 1..Len(tbl) : tbl[i].digest = d
    ELSE 0

RECURSIVE InsertRows_Reversed(_, _, _)
\* mutant: the batch reaches the table last digest first
InsertRows_Reversed(tbl, ds, w) ==
    IF ds = <<>> THEN tbl
    ELSE LET d == Last(ds)
             t == IF IdOf(tbl, d) # 0 THEN tbl
                  ELSE Append(tbl, [digest |-> d, by |-> w, order |-> 0])
         IN  InsertRows_Reversed(t, SubSeq(ds, 1, Len(ds) - 1), w)

RECURSIVE InsertRows(_, _, _)
\* INSERT ... ON CONFLICT DO NOTHING of the digests ds, in order, by writer w
InsertRows(tbl, ds, w) ==
    IF ds = <<>> THEN tbl
    ELSE LET d == Head(ds)
             t == IF IdOf(tbl, d) # 0 THEN tbl
                  ELSE Append(tbl, [digest |-> d, by |-> w, order |-> 0])
         IN  InsertRows(t, Tail(ds), w)

\* db::insert_digests of tx-iterator: writes table `txs`
insert_digests(ds) == InsertRows(tbl_txs, ds, "me")

\* db::has_digest of tx-iterator: reads table `txs`
has_digest(tbl, d) == IdOf(tbl, d) # 0

\* db::select_digests_since of tx-iterator: reads table `txs`
select_digests_since(tbl, digest, inclusive) ==
    LET pivot == IdOf(tbl, digest)
        from  == IF inclusive THEN pivot ELSE pivot + 1
    IN  IF pivot = 0 \/ from > Len(tbl) THEN <<>>
        ELSE Take([i \in 1..(Len(tbl) - from + 1) |-> tbl[from + i - 1].digest],
                  QUERY_TX_DIGESTS_BATCH)

\* mutant: the later selects include the row of the digest
select_digests_since_exclusive_Inclusive(tbl, digest) ==
    select_digests_since(tbl, digest, TRUE)

select_digests_since_exclusive(tbl, digest) ==
    select_digests_since(tbl, digest, FALSE)

select_digests_since_inclusive(tbl, digest) ==
    select_digests_since(tbl, digest, TRUE)

(***************************************************************************)
(* Leader loop (leader.rs).  An insert that fails may or may not have      *)
(* reached the table before the error was reported.                        *)
(***************************************************************************)
\* start returns an error and main ends: the locals of the process are gone
Fail == /\ pc' = "failed"
        /\ fetch_from_seqnum' = 0
        /\ digests' = <<>>
        /\ latest_db_digest' = 0
        /\ db_only_digests' = {}
        /\ rpc_only_digests' = [d \in {} |-> 0]
        /\ rpc_only_digests_timestamps' = <<>>
        /\ rpc_call' = <<>>
        /\ UNCHANGED <<total, tbl_digests, is_leader, next_fetch_from_seqnum,
                       spawned_as>>

\* lines 23-33: the priming fetch, from the published seqnum
LeaderPrime ==
    /\ pc = "leader_prime"
    /\ UNCHANGED pullerVars
    /\ \/ /\ fetch_digests_ready(next_fetch_from_seqnum)
          /\ LET r == fetch_digests(next_fetch_from_seqnum)
             IN  /\ fetch_from_seqnum' = r.seq_num
                 /\ digests' = r.digests
          /\ pc' = "leader_insert"
          /\ UNCHANGED <<total, tbl_txs, tbl_digests, is_leader,
                         next_fetch_from_seqnum, spawned_as, latest_db_digest,
                         db_only_digests, rpc_only_digests,
                         rpc_only_digests_timestamps, handed,
                         rpc_call>>
       \/ \* the RPC call failed after its retries
          Fail /\ UNCHANGED <<tbl_txs, handed>>

\* Result<(SeqNum, Vec<Digest>)>: what a call of fetch_digests left in
\* rpc_call
\* mutant: the result kept in rpc_call has lost its digests
RpcOk_NoDigests(r) == [err |-> FALSE, seq_num |-> r.seq_num, digests |-> <<>>]

RpcOk(r) == [err |-> FALSE, seq_num |-> r.seq_num, digests |-> r.digests]

RpcErr == [err |-> TRUE, seq_num |-> 0, digests |-> <<>>]

\* lines 35-43: the db half of the join; a statement that reported an error
\* may or may not have reached the table.  When it reported one, the join
\* has also returned the RPC half, which lines 61-67 read after the retry.
LeaderInsert ==
    /\ pc = "leader_insert"
    /\ UNCHANGED pullerVars
    /\ digests # <<>>
    /\ handed' = Append(handed, [by_leader |-> is_leader, in_loop |-> TRUE,
                                 retry |-> FALSE, batch |-> digests])
    /\ \/ /\ tbl_txs' = insert_digests(digests)
          /\ pc' = "leader_fetch"
          /\ UNCHANGED rpc_call
       \/ /\ tbl_txs' \in {tbl_txs, insert_digests(digests)}
          /\ pc' = "leader_retry"
          /\ \/ /\ fetch_digests_ready(fetch_from_seqnum)
                /\ rpc_call' = <<RpcOk(fetch_digests(fetch_from_seqnum))>>
             \/ rpc_call' = <<RpcErr>>
    /\ UNCHANGED <<total, tbl_digests, is_leader, next_fetch_from_seqnum,
                   spawned_as, fetch_from_seqnum, digests, latest_db_digest,
                   db_only_digests, rpc_only_digests,
                   rpc_only_digests_timestamps>>

\* mutant: a retry that fails is followed by another one
LeaderRetry_Again ==
    /\ pc = "leader_retry"
    /\ UNCHANGED pullerVars
    /\ handed' = Append(handed, [by_leader |-> is_leader, in_loop |-> TRUE,
                                 retry |-> TRUE, batch |-> digests])
    /\ \/ /\ tbl_txs' = insert_digests(digests)
          /\ pc' = "leader_fetch"
       \/ /\ tbl_txs' \in {tbl_txs, insert_digests(digests)}
          /\ pc' = "leader_retry"
    /\ UNCHANGED <<total, tbl_digests, is_leader, next_fetch_from_seqnum,
                   spawned_as, fetch_from_seqnum, digests, latest_db_digest,
                   db_only_digests, rpc_only_digests,
                   rpc_only_digests_timestamps, rpc_call>>

\* lines 44-59: the connection is rebuilt and the same digests are inserted
\* again
LeaderRetry ==
    /\ pc = "leader_retry"
    /\ UNCHANGED pullerVars
    /\ \/ /\ handed' = Append(handed, [by_leader |-> is_leader,
                                       in_loop |-> TRUE, retry |-> TRUE,
                                       batch |-> digests])
          /\ tbl_txs' = insert_digests(digests)
          /\ pc' = "leader_fetch"
          /\ UNCHANGED <<total, tbl_digests, is_leader, next_fetch_from_seqnum,
                         spawned_as, fetch_from_seqnum, digests,
                         latest_db_digest, db_only_digests, rpc_only_digests,
                         rpc_only_digests_timestamps, rpc_call>>
       \/ \* "Cannot revive db connection"
          Fail /\ UNCHANGED <<tbl_txs, handed>>
       \/ \* "Retrying inserting digests failed"
          /\ handed' = Append(handed, [by_leader |-> is_leader,
                                       in_loop |-> TRUE, retry |-> TRUE,
                                       batch |-> digests])
          /\ tbl_txs' \in {tbl_txs, insert_digests(digests)}
          /\ Fail

\* mutant: the next range starts at the seqnum just fetched
NextFetchFrom_Inclusive(next_largest_seqnum) == next_largest_seqnum

\* lines 70-72: "next iteration should not be inclusive"
NextFetchFrom(next_largest_seqnum) == next_largest_seqnum + 1

\* lines 41 and 61-82: the RPC half of the join and the publication.  After
\* a retry the result is the one the join returned.
LeaderFetch ==
    /\ pc = "leader_fetch"
    /\ UNCHANGED pullerVars
    /\ \/ /\ IF rpc_call = <<>> THEN fetch_digests_ready(fetch_from_seqnum)
                                ELSE ~rpc_call[1].err
          /\ LET r == IF rpc_call = <<>> THEN fetch_digests(fetch_from_seqnum)
                                         ELSE rpc_call[1]
                 next_largest_seqnum == r.seq_num
                 next_digests == r.digests
             IN  /\ digests' = next_digests
                 /\ fetch_from_seqnum' = NextFetchFrom(next_largest_seqnum)
                 /\ next_fetch_from_seqnum' = NextFetchFrom(next_largest_seqnum)
          /\ rpc_call' = <<>>
          /\ pc' = "leader_insert"
          /\ UNCHANGED <<total, tbl_txs, tbl_digests, is_leader, spawned_as,
                         latest_db_digest, db_only_digests, rpc_only_digests,
                         rpc_only_digests_timestamps, handed>>
       \/ \* "Cannot fetch next batch of digests"
          /\ IF rpc_call = <<>> THEN TRUE ELSE rpc_call[1].err
          /\ Fail /\ UNCHANGED <<tbl_txs, handed>>

(***************************************************************************)
(* Support loop (support.rs).  An entry of the FIFO keeps the age of its   *)
(* observation, now - timestamp, counted in clock ticks and capped at      *)
(* InvestigateAfter + 1: the code only ever compares it with the           *)
(* threshold.                                                              *)
(***************************************************************************)
\* mutant: the comparison with the threshold is not strict
Aged_NotStrict(e) == e.age >= InvestigateAfter

Aged(e) == e.age > InvestigateAfter

RECURSIVE pop_observed_digests(_, _, _)
\* lines 192-240.  Returns the verdict, the FIFO as it is left, and the     *)
\* entries has_digest was asked about.
pop_observed_digests(rpc_only, timestamps, tbl) ==
    IF timestamps = <<>>
    THEN [promote |-> FALSE, start_leader_from_seqnum |-> 0,
          timestamps |-> timestamps, queried |-> <<>>]
    ELSE LET e == Head(timestamps)
         IN  IF e.digest \notin DOMAIN rpc_only
             THEN pop_observed_digests(rpc_only, Tail(timestamps), tbl)
             ELSE IF Aged(e)
             THEN IF has_digest(tbl, e.digest)
                  THEN LET r == pop_observed_digests(rpc_only,
                                    Tail(timestamps), tbl)
                       IN  [r EXCEPT !.queried = <<e>> \o @]
                  ELSE [promote |-> TRUE,
                        start_leader_from_seqnum |-> rpc_only[e.digest],
                        timestamps |-> timestamps, queried |-> <<e>>]
             ELSE [promote |-> FALSE, start_leader_from_seqnum |-> 0,
                   timestamps |-> timestamps, queried |-> <<>>]

\* rpc::digest, lines 54-61: the first transaction of the range
\* (seqnum, seqnum), 0 when the range holds none
digest(seqnum) ==
    LET txs == get_transactions_in_range(seqnum, seqnum)
    IN  IF txs = <<>> THEN 0 ELSE txs[1].digest

\* rpc::latest_digest, lines 44-52: 0 stands for the error it returns when
\* the node knows no transaction
latest_digest == IF total = 0 THEN 0 ELSE DigestAt(total - 1)

\* lines 242-269
initial_db_digests(seqnum) ==
    LET fetch_from_digest ==
            IF digest(seqnum) # 0 THEN digest(seqnum) ELSE latest_digest
        db_only == select_digests_since_inclusive(tbl_txs, fetch_from_digest)
    IN  [latest_db_digest |->
             IF db_only # <<>> THEN Last(db_only) ELSE fetch_from_digest,
         db_only_digests |-> db_only]

\* lines 36-51: the locals of support::start before its loop
SupportBoot ==
    /\ pc = "support_boot"
    /\ UNCHANGED pullerVars
    /\ \/ /\ digest(next_fetch_from_seqnum) # 0 \/ latest_digest # 0
          /\ LET r == initial_db_digests(next_fetch_from_seqnum)
             IN  /\ latest_db_digest' = r.latest_db_digest
                 /\ db_only_digests' = Range(r.db_only_digests)
          /\ fetch_from_seqnum' = next_fetch_from_seqnum
          /\ rpc_only_digests' = [d \in {} |-> 0]
          /\ rpc_only_digests_timestamps' = <<>>
          /\ pc' = "support"
          /\ UNCHANGED <<total, tbl_txs, tbl_digests, is_leader,
                         next_fetch_from_seqnum, spawned_as, digests, handed,
                         rpc_call>>
       \/ \* an RPC or db call failed, or the node knows no transaction
          Fail /\ UNCHANGED <<tbl_txs, handed>>

RECURSIVE Reconcile_PushFront(_, _, _, _, _)
\* mutant: a digest seen on RPC only is pushed to the front of the FIFO
Reconcile_PushFront(pairs, i, db_only, rpc_only, timestamps) ==
    IF i > Len(pairs)
    THEN [db_only |-> db_only, rpc_only |-> rpc_only, timestamps |-> timestamps]
    ELSE LET d == pairs[i].digest
         IN  IF d \in db_only
             THEN Reconcile_PushFront(pairs, i + 1, db_only \ {d}, rpc_only,
                      timestamps)
             ELSE Reconcile_PushFront(pairs, i + 1, db_only,
                      [x \in DOMAIN rpc_only \cup {d} |->
                           IF x = d THEN pairs[i].seqnum ELSE rpc_only[x]],
                      <<[age |-> 0, digest |-> d]>> \o timestamps)

RECURSIVE Reconcile(_, _, _, _, _)
\* lines 79-91: the pairs (seqnum, digest) of the zip, one after the other
Reconcile(pairs, i, db_only, rpc_only, timestamps) ==
    IF i > Len(pairs)
    THEN [db_only |-> db_only, rpc_only |-> rpc_only, timestamps |-> timestamps]
    ELSE LET d == pairs[i].digest
         IN  IF d \in db_only
             THEN Reconcile(pairs, i + 1, db_only \ {d}, rpc_only, timestamps)
             ELSE Reconcile(pairs, i + 1, db_only,
                      [x \in DOMAIN rpc_only \cup {d} |->
                           IF x = d THEN pairs[i].seqnum ELSE rpc_only[x]],
                      Append(timestamps, [age |-> 0, digest |-> d]))

\* lines 79-80: (fetch_from_seqnum..latest_seqnum).zip(new_rpc_digests)
ZipSeqnums(from, latest_seqnum, new_rpc_digests) ==
    [i \in 1..Min(latest_seqnum - from, Len(new_rpc_digests)) |->
         [seqnum |-> from + i - 1, digest |-> new_rpc_digests[i]]]

\* lines 70-124: the iteration once both halves of the join are in hand
SupportReconcile(call, new_db_digests) ==
    LET latest_seqnum == call.seq_num
        db_only == db_only_digests \cup Range(new_db_digests)
        rec == Reconcile(ZipSeqnums(fetch_from_seqnum, latest_seqnum,
                                    call.digests),
                         1, db_only, rpc_only_digests,
                         rpc_only_digests_timestamps)
        popped == pop_observed_digests(rec.rpc_only, rec.timestamps, tbl_txs)
    IN  /\ Len(popped.timestamps) <= MaxPending
        /\ latest_db_digest' =
               IF new_db_digests # <<>> THEN Last(new_db_digests)
               ELSE latest_db_digest
        /\ db_only_digests' = rec.db_only
        /\ rpc_only_digests' = rec.rpc_only
        /\ rpc_only_digests_timestamps' = popped.timestamps
        /\ IF popped.promote
           THEN /\ next_fetch_from_seqnum' = popped.start_leader_from_seqnum
                /\ pc' = "promote_is_leader"
           ELSE /\ next_fetch_from_seqnum' =
                       IF popped.timestamps # <<>>
                       THEN rec.rpc_only[Head(popped.timestamps).digest]
                       ELSE latest_seqnum + 1
                /\ pc' = "support"
        /\ rpc_call' = <<>>
        /\ UNCHANGED <<total, tbl_txs, tbl_digests, is_leader, spawned_as,
                       fetch_from_seqnum, digests, handed>>

\* lines 53-129: one iteration of the loop
SupportIteration ==
    /\ pc = "support"
    /\ UNCHANGED pullerVars
    /\ \/ /\ fetch_digests_ready(fetch_from_seqnum)
          /\ SupportReconcile(fetch_digests(fetch_from_seqnum),
                 select_digests_since_exclusive(tbl_txs, latest_db_digest))
       \/ \* lines 62-68: the select failed and the RPC call did not
          /\ fetch_digests_ready(fetch_from_seqnum)
          /\ rpc_call' = <<RpcOk(fetch_digests(fetch_from_seqnum))>>
          /\ pc' = "support_retry"
          /\ UNCHANGED <<total, tbl_txs, tbl_digests, is_leader,
                         next_fetch_from_seqnum, spawned_as, fetch_from_seqnum,
                         digests, latest_db_digest, db_only_digests,
                         rpc_only_digests, rpc_only_digests_timestamps,
                         handed>>
       \/ \* line 60: the RPC call failed, whatever the select did
          Fail /\ UNCHANGED <<tbl_txs, handed>>

\* lines 271-297, retry_db_conn_on_err_in_select_digests: the connection is
\* rebuilt and the select is run again, since the same latest_db_digest
SupportRetry ==
    /\ pc = "support_retry"
    /\ UNCHANGED pullerVars
    /\ \/ SupportReconcile(rpc_call[1],
              select_digests_since_exclusive(tbl_txs, latest_db_digest))
       \/ \* "Cannot revive db connection", or the second select failed
          Fail /\ UNCHANGED <<tbl_txs, handed>>

\* mutant: the loop is not left after the stores
PromoteIsLeader_NoBreak ==
    /\ pc = "promote_is_leader"
    /\ UNCHANGED pullerVars
    /\ is_leader' = TRUE
    /\ pc' = "support"
    /\ UNCHANGED <<total, tbl_txs, tbl_digests, next_fetch_from_seqnum,
                   spawned_as, fetch_from_seqnum, digests, latest_db_digest,
                   db_only_digests, rpc_only_digests,
                   rpc_only_digests_timestamps, handed,
                   rpc_call>>

\* mutant: is_leader is left for later
PromoteIsLeader_NoStore ==
    /\ pc = "promote_is_leader"
    /\ UNCHANGED pullerVars
    /\ pc' = "promote_insert"
    /\ UNCHANGED <<total, tbl_txs, tbl_digests, is_leader,
                   next_fetch_from_seqnum, spawned_as, fetch_from_seqnum,
                   digests, latest_db_digest, db_only_digests,
                   rpc_only_digests, rpc_only_digests_timestamps, handed,
                   rpc_call>>

\* line 111: status.is_leader.store(true)
PromoteIsLeader ==
    /\ pc = "promote_is_leader"
    /\ UNCHANGED pullerVars
    /\ is_leader' = TRUE
    /\ pc' = "promote_insert"
    /\ UNCHANGED <<total, tbl_txs, tbl_digests, next_fetch_from_seqnum,
                   spawned_as, fetch_from_seqnum, digests, latest_db_digest,
                   db_only_digests, rpc_only_digests,
                   rpc_only_digests_timestamps, handed,
                   rpc_call>>

\* lines 148-152: the digests of the FIFO still in the map, in FIFO order
digests_not_observed_in_db ==
    LET keep == SelectSeq(rpc_only_digests_timestamps,
                    LAMBDA e : e.digest \in DOMAIN rpc_only_digests)
    IN  [i \in 1..Len(keep) |-> keep[i].digest]

\* lines 131-178: the structures are dropped, the outstanding digests are
\* inserted and the leader loop is entered
PromoteInsert ==
    /\ pc = "promote_insert"
    /\ UNCHANGED pullerVars
    /\ \/ /\ db_only_digests' = {}
          /\ rpc_only_digests' = [d \in {} |-> 0]
          /\ rpc_only_digests_timestamps' = <<>>
          /\ IF digests_not_observed_in_db # <<>>
             THEN /\ tbl_txs' = insert_digests(digests_not_observed_in_db)
                  /\ handed' = Append(handed,
                         [by_leader |-> is_leader, in_loop |-> FALSE,
                          retry |-> FALSE,
                          batch |-> digests_not_observed_in_db])
                  /\ next_fetch_from_seqnum' =
                         rpc_only_digests[Head(digests_not_observed_in_db)] + 1
             ELSE UNCHANGED <<tbl_txs, handed, next_fetch_from_seqnum>>
          /\ pc' = "leader_prime"
          /\ UNCHANGED <<total, tbl_digests, is_leader, spawned_as,
                         fetch_from_seqnum, digests, latest_db_digest,
                         rpc_call>>
       \/ \* the writer connection failed
          Fail /\ UNCHANGED <<tbl_txs, handed>>
       \/ \* the insert failed
          /\ digests_not_observed_in_db # <<>>
          /\ tbl_txs' \in {tbl_txs, insert_digests(digests_not_observed_in_db)}
          /\ handed' = Append(handed,
                 [by_leader |-> is_leader, in_loop |-> FALSE, retry |-> FALSE,
                  batch |-> digests_not_observed_in_db])
          /\ Fail

\* the clock advances by one tick while the process runs
Tick ==
    /\ UNCHANGED pullerVars
    /\ pc # "failed"
    /\ rpc_only_digests_timestamps' =
           [i \in 1..Len(rpc_only_digests_timestamps) |->
                [rpc_only_digests_timestamps[i] EXCEPT
                     !.age = Min(@ + 1, InvestigateAfter + 1)]]
    /\ UNCHANGED <<total, tbl_txs, tbl_digests, is_leader,
                   next_fetch_from_seqnum, pc, spawned_as, fetch_from_seqnum,
                   digests, latest_db_digest, db_only_digests,
                   rpc_only_digests, handed,
                   rpc_call>>

(***************************************************************************)
(* tx-puller (tx-puller/src/main.rs) over the db crate (db/src/lib.rs),    *)
(* whose statements name table `digests`.  A row of `digests` is           *)
(* [digest, status], its id its position.                                  *)
(***************************************************************************)
Pullers == 1..NumPullers

\* ids locked FOR UPDATE by the open transactions of the pullers in ps
LockedBy(ps) == UNION {claimed[p] : p \in ps}

\* the ids of s in ascending order
RECURSIVE SortedIds(_)
SortedIds(s) ==
    IF s = {} THEN <<>>
    ELSE LET m == CHOOSE x \in s : \A y \in s : x <= y
         IN  <<m>> \o SortedIds(s \ {m})

\* the same SELECT without SKIP LOCKED and without waiting for the locks
select_and_lock_NoSkipLocked(p, limit) ==
    LET eligible == {i \in 1..Len(tbl_digests) : tbl_digests[i].status = 0}
    IN  {ids \in SUBSET eligible :
             Cardinality(ids) = Min(limit, Cardinality(eligible))}

\* select_and_lock_unprocessed_digests, lines 116-137: the sets of rows one
\* SELECT ... WHERE status = 0 LIMIT limit FOR UPDATE SKIP LOCKED may return
\* to puller p
select_and_lock_unprocessed_digests(p, limit) ==
    LET eligible == {i \in 1..Len(tbl_digests) :
                         /\ tbl_digests[i].status = 0
                         /\ i \notin LockedBy(Pullers \ {p})}
    IN  {ids \in SUBSET eligible :
             Cardinality(ids) = Min(limit, Cardinality(eligible))}

\* main.rs 35-36: the filter is built empty and nothing is added to it
bloom == {}

\* what rpc::fetch_tx may answer for a digest: an error, or a response with
\* its execution status and the keys is_tx_of_interest looks up
Responses ==
    {[ok |-> FALSE, success |-> FALSE, keys |-> {}]} \cup
    [ok : {TRUE}, success : BOOLEAN, keys : SUBSET {"A"}]

\* is_tx_of_interest, lines 111-155
is_tx_of_interest(response) ==
    /\ response.success
    /\ response.keys \cap bloom # {}

\* ---- is_tx_of_interest in full.  Bytes are sequences, so that the
\* concatenation of lines 172-177 is \o; `keys` of a response above stands
\* for the bytes looked up here.
Addresses == {<<"A">>, <<"B">>}

NoBytes == <<>>

\* Owner: AddressOwner and ObjectOwner carry an address
Owners ==
    [kind : {"AddressOwner", "ObjectOwner"}, addr : Addresses] \cup
    [kind : {"Shared", "Immutable"}, addr : {NoBytes}]

\* OwnedObjectRef: owner and reference.object_id
OwnedObjects == [owner : Owners, object_id : Addresses]

\* Owner::get_owner_address of the SDK: the address of an AddressOwner or an
\* ObjectOwner, an error (NoBytes) otherwise
get_owner_address(owner) ==
    IF owner.kind \in {"AddressOwner", "ObjectOwner"} THEN owner.addr
    ELSE NoBytes

NoOwner == [kind |-> "Immutable", addr |-> NoBytes]

\* SuiEvent, the fields is_event_of_interest reads
Events ==
    [kind : {"Checkpoint", "EpochChange"}, package_id : {NoBytes},
     sender : {NoBytes}, transaction_module : {NoBytes}, type_ : {NoBytes},
     object_id : {NoBytes}, recipient : {NoOwner}] \cup
    [kind : {"MoveEvent"}, package_id : Addresses, sender : Addresses,
     transaction_module : {<<"m">>}, type_ : {<<"t">>},
     object_id : {NoBytes}, recipient : {NoOwner}] \cup
    [kind : {"Publish"}, package_id : Addresses, sender : Addresses,
     transaction_module : {NoBytes}, type_ : {NoBytes},
     object_id : {NoBytes}, recipient : {NoOwner}] \cup
    [kind : {"TransferObject", "NewObject"}, package_id : Addresses,
     sender : Addresses, transaction_module : {NoBytes}, type_ : {NoBytes},
     object_id : Addresses, recipient : Owners] \cup
    [kind : {"DeleteObject"}, package_id : Addresses, sender : Addresses,
     transaction_module : {NoBytes}, type_ : {NoBytes},
     object_id : Addresses, recipient : {NoOwner}]

\* a response whose effects hold the gas object and nothing else
BareResponses ==
    [status : {"Success", "Failure"}, sender : Addresses,
     gas_object : OwnedObjects, created : {<<>>}, mutated : {<<>>},
     unwrapped : {<<>>}, shared_objects : {<<>>}, deleted : {<<>>},
     wrapped : {<<>>}, events : {<<>>}]

\* SuiTransactionResponse: the gas object and at most one more object or
\* event
TxResponses ==
    BareResponses
    \cup {[r EXCEPT ![f] = <<o>>] :
              r \in BareResponses, o \in OwnedObjects,
              f \in {"created", "mutated", "unwrapped"}}
    \cup {[r EXCEPT ![f] = <<id>>] :
              r \in BareResponses, id \in Addresses,
              f \in {"shared_objects", "deleted", "wrapped"}}
    \cup {[r EXCEPT !.events = <<e>>] : r \in BareResponses, e \in Events}

\* what the filter may answer true for: addresses and ids, and the bytes of
\* one event name
Filters == SUBSET (Addresses \cup {<<"A", "m", "t">>})

\* is_event_of_interest, lines 157-225
is_event_of_interest(b, event) ==
    CASE event.kind \in {"Checkpoint", "EpochChange"} -> FALSE
      [] event.kind = "MoveEvent" ->
             \/ event.package_id \in b
             \/ event.sender \in b
             \/ (event.package_id \o event.transaction_module \o event.type_)
                    \in b
      [] event.kind = "Publish" ->
             \/ event.package_id \in b
             \/ event.sender \in b
      [] event.kind \in {"TransferObject", "NewObject"} ->
             \/ event.package_id \in b
             \/ event.object_id \in b
             \/ event.sender \in b
             \/ /\ get_owner_address(event.recipient) # NoBytes
                /\ get_owner_address(event.recipient) \in b
      [] event.kind = "DeleteObject" ->
             \/ event.package_id \in b
             \/ event.object_id \in b
             \/ event.sender \in b

\* is_tx_of_interest, lines 111-155, over a filter b
tx_of_interest(b, tx) ==
    LET owned_objs == <<tx.gas_object>> \o tx.created \o tx.mutated
                          \o tx.unwrapped
        objs == tx.shared_objects \o tx.deleted \o tx.wrapped
    IN  IF tx.status # "Success" THEN FALSE
        ELSE \/ \E i \in 1..Len(owned_objs) :
                    \/ /\ owned_objs[i].owner.kind
                              \in {"AddressOwner", "ObjectOwner"}
                       /\ owned_objs[i].owner.addr \in b
                    \/ owned_objs[i].object_id \in b
             \/ \E i \in 1..Len(objs) : objs[i] \in b
             \/ \E i \in 1..Len(tx.events) :
                    is_event_of_interest(b, tx.events[i])
             \/ tx.sender \in b

\* process_next_batch, lines 73-75: one response is classified
Classify ==
    /\ interest_result = "none"
    /\ interest_result' =
           IF tx_of_interest(interest_bloom, interest_tx) THEN "true"
           ELSE "false"
    /\ UNCHANGED <<interest_tx, interest_bloom, total, tbl_txs, tbl_digests,
                   is_leader, next_fetch_from_seqnum, pc, spawned_as,
                   fetch_from_seqnum, digests, latest_db_digest,
                   db_only_digests, rpc_only_digests,
                   rpc_only_digests_timestamps, handed, rpc_call, boot_seqnum, drained,
                   ppc, claimed, ids_to_mark_processed, puller_txs, callVars,
                   initial_seq_num,
                   query, streamVars>>

\* insert_txs, lines 159-173: with no tx the statement reads VALUES ()
insert_txs_ok(bodies) == Len(bodies) > 0

\* mark_digests_as_processed, lines 142-157: one placeholder, IN (?), is
\* bound to the whole slice of ids
RECURSIVE InsertDigestRows_NoConflict(_, _)
\* mutant: every digest of the batch becomes a new row
InsertDigestRows_NoConflict(tbl, ds) ==
    IF ds = <<>> THEN tbl
    ELSE InsertDigestRows_NoConflict(
             Append(tbl, [digest |-> Head(ds), status |-> 0]), Tail(ds))

RECURSIVE InsertDigestRows(_, _)
\* db crate insert_digests, lines 94-110: INSERT INTO digests (digest) ...
\* ON CONFLICT DO NOTHING of the digests ds, in order; a new row is
\* Unprocessed
InsertDigestRows(tbl, ds) ==
    IF ds = <<>> THEN tbl
    ELSE LET d == Head(ds)
             t == IF IdOf(tbl, d) # 0 THEN tbl
                  ELSE Append(tbl, [digest |-> d, status |-> 0])
         IN  InsertDigestRows(t, Tail(ds))

mark_digests_as_processed_ok(ids) == Len(ids) = 1

\* mutant: the statement flips the status
mark_digests_as_processed_Toggle(ids) ==
    [i \in 1..Len(tbl_digests) |->
         IF i \in Range(ids)
         THEN [tbl_digests[i] EXCEPT !.status = 1 - tbl_digests[i].status]
         ELSE tbl_digests[i]]

mark_digests_as_processed(ids) ==
    [i \in 1..Len(tbl_digests) |->
         IF i \in Range(ids) THEN [tbl_digests[i] EXCEPT !.status = 1]
         ELSE tbl_digests[i]]

\* what the puller processes leave alone
iteratorVars ==
    <<total, is_leader, next_fetch_from_seqnum, pc, spawned_as,
      fetch_from_seqnum, digests, latest_db_digest, db_only_digests,
      rpc_only_digests, rpc_only_digests_timestamps, handed, rpc_call, boot_seqnum,
      drained, callVars, interestVars, initial_seq_num,
      query, streamVars>>

\* positions of a puller whose transaction is open
OpenTx == {"in_tx", "fetched"}

\* positions of a puller whose process has ended: main returned the error of
\* a statement, or the process or its connection died
Ended == {"failed_insert", "failed_mark", "failed_both", "crashed"}

\* mutant: the rows stay locked after the transaction has ended
LocksAfterEnd_Kept(p) == claimed[p]

\* main.rs 38-44: the end of a transaction, committed or not, releases the
\* rows it locked
LocksAfterEnd(p) == {}

\* mutant: without a transaction around them, the update that succeeded
\* stays although the insert failed
AbortedTables_MarkKept(bodies, ids) ==
    [txs |-> tbl_txs,
     digests |-> IF mark_digests_as_processed_ok(ids)
                 THEN mark_digests_as_processed(ids) ELSE tbl_digests]

\* main.rs 38-44: a transaction that is dropped without a commit leaves both
\* tables as they were
AbortedTables(bodies, ids) == [txs |-> tbl_txs, digests |-> tbl_digests]

\* main.rs 43 and 86-91: the commit makes the effects of both statements
\* durable
CommittedTables(bodies, ids) ==
    [txs |-> tbl_txs \o bodies, digests |-> mark_digests_as_processed(ids)]

\* main.rs 39 and 59-61: the transaction is opened and the batch locked
PullerClaim(p) ==
    /\ ppc[p] = "idle"
    /\ \E ids \in select_and_lock_unprocessed_digests(p, BATCH_SIZE) :
          claimed' = [claimed EXCEPT ![p] = ids]
    /\ ppc' = [ppc EXCEPT ![p] = "in_tx"]
    /\ UNCHANGED <<tbl_txs, tbl_digests, ids_to_mark_processed, puller_txs>>
    /\ UNCHANGED iteratorVars

\* main.rs 63-84: the bodies are fetched; every fetched id is kept for the
\* update, every fetched body of interest for the insert
PullerFetch(p) ==
    /\ ppc[p] = "in_tx"
    /\ \E responses \in [claimed[p] -> Responses] :
          LET rows == SortedIds(claimed[p])
              fetched == SelectSeq(rows, LAMBDA id : responses[id].ok)
              of_interest ==
                  SelectSeq(fetched,
                            LAMBDA id : is_tx_of_interest(responses[id]))
          IN  /\ ids_to_mark_processed' =
                     [ids_to_mark_processed EXCEPT ![p] = fetched]
              /\ puller_txs' = [puller_txs EXCEPT ![p] =
                     [i \in 1..Len(of_interest) |->
                          [digest |-> tbl_digests[of_interest[i]].digest,
                           by |-> "puller", order |-> of_interest[i]]]]
    /\ ppc' = [ppc EXCEPT ![p] = "fetched"]
    /\ UNCHANGED <<tbl_txs, tbl_digests, claimed>>
    /\ UNCHANGED iteratorVars

\* main.rs 86-93 and 43: the two statements are run and the transaction is
\* committed; the error of a statement makes main return, which rolls the
\* transaction back
PullerWrite(p) ==
    /\ ppc[p] = "fetched"
    /\ LET inserted == insert_txs_ok(puller_txs[p])
           marked == mark_digests_as_processed_ok(ids_to_mark_processed[p])
           after == IF inserted /\ marked
                    THEN CommittedTables(puller_txs[p],
                                         ids_to_mark_processed[p])
                    ELSE AbortedTables(puller_txs[p],
                                       ids_to_mark_processed[p])
       IN  /\ tbl_txs' = after.txs
           /\ tbl_digests' = after.digests
           /\ ppc' = [ppc EXCEPT ![p] =
                  IF inserted /\ marked THEN "idle"
                  ELSE IF marked THEN "failed_insert"
                  ELSE IF inserted THEN "failed_mark"
                  ELSE "failed_both"]
    /\ claimed' = [claimed EXCEPT ![p] = LocksAfterEnd(p)]
    /\ ids_to_mark_processed' = [ids_to_mark_processed EXCEPT ![p] = <<>>]
    /\ puller_txs' = [puller_txs EXCEPT ![p] = <<>>]
    /\ UNCHANGED iteratorVars

\* main.rs 38-44: the process dies, or the connection or the commit fails,
\* while the transaction is open
PullerCrash(p) ==
    /\ ppc[p] \in OpenTx
    /\ LET after == AbortedTables(puller_txs[p], ids_to_mark_processed[p])
       IN  /\ tbl_txs' = after.txs
           /\ tbl_digests' = after.digests
    /\ ppc' = [ppc EXCEPT ![p] = "crashed"]
    /\ claimed' = [claimed EXCEPT ![p] = LocksAfterEnd(p)]
    /\ ids_to_mark_processed' = [ids_to_mark_processed EXCEPT ![p] = <<>>]
    /\ puller_txs' = [puller_txs EXCEPT ![p] = <<>>]
    /\ UNCHANGED iteratorVars

\* main.rs 24-37: the supervisor starts the process again
PullerRestart(p) ==
    /\ ppc[p] \in Ended
    /\ ppc' = [ppc EXCEPT ![p] = "idle"]
    /\ UNCHANGED <<tbl_txs, tbl_digests, claimed, ids_to_mark_processed,
                   puller_txs>>
    /\ UNCHANGED iteratorVars

(***************************************************************************)
(* One RPC call of the tx-iterator on its own, attempt by attempt: the     *)
(* retry helper (helpers.rs, misc/src/lib.rs) and the places that call the *)
(* node.  Every run of job() succeeds or fails, as the node pleases.       *)
(***************************************************************************)
\* helpers.rs, line 12: retry(job, 3, 10, 10)
retry_rpc_args ==
    [max_retries |-> 3, wait_ms |-> 10, exponential_backoff_multiplier |-> 10]

\* the places of the tx-iterator that call the node
CallSites == {"boot", "fetch_digests", "latest_digest", "digest"}

\* those of them whose call is the job of retry_rpc: rpc.rs, lines 21, 46
\* and 57; boot.rs, line 69, awaits the node directly
ThroughRetry == {"fetch_digests", "latest_digest", "digest"}

\* everything a call leaves alone
restVars ==
    <<tbl_txs, tbl_digests, is_leader, next_fetch_from_seqnum, pc, spawned_as,
      fetch_from_seqnum, digests, latest_db_digest, db_only_digests,
      rpc_only_digests, rpc_only_digests_timestamps, handed, rpc_call, boot_seqnum,
      drained, ppc, claimed, ids_to_mark_processed, puller_txs,
      interestVars, initial_seq_num,
      query, streamVars>>

\* what the node answers to a job that succeeds
Answer(site, from) ==
    CASE site = "boot" ->
             [ok |-> TRUE, seq_num |-> total, digests |-> <<>>]
      [] site = "fetch_digests" ->
             [ok |-> TRUE, seq_num |-> fetch_digests(from).seq_num,
              digests |-> fetch_digests(from).digests]
      [] site = "latest_digest" ->
             [ok |-> TRUE, seq_num |-> 0,
              digests |-> IF latest_digest = 0 THEN <<>>
                          ELSE <<latest_digest>>]
      [] site = "digest" ->
             [ok |-> TRUE, seq_num |-> 0,
              digests |-> IF digest(from) = 0 THEN <<>> ELSE <<digest(from)>>]

CallError == [ok |-> FALSE, seq_num |-> 0, digests |-> <<>>]

\* the call is made: through retry_rpc, or directly
CallBegin ==
    /\ call_pc = "call"
    /\ IF call_site \in ThroughRetry
       THEN /\ call_pc' = "job"
            /\ retries' = retry_rpc_args.max_retries
            /\ wait_ms' = retry_rpc_args.wait_ms
       ELSE /\ call_pc' = "direct"
            /\ UNCHANGED <<retries, wait_ms>>
    /\ UNCHANGED <<total, call_site, call_from, attempts, slept, polls,
                   call_result, restVars>>

\* retry, lines 28-36: one run of job() and the match on its result
RetryJob ==
    /\ call_pc = "job"
    /\ attempts' = attempts + 1
    /\ \E job_ok \in BOOLEAN :
          IF ~job_ok /\ retries > 0
          THEN /\ retries' = retries - 1
               /\ call_pc' = "sleep"
               /\ UNCHANGED call_result
          ELSE /\ UNCHANGED retries
               /\ IF ~job_ok
                  THEN /\ call_pc' = "returned"
                       /\ call_result' = CallError
                  ELSE IF call_site = "fetch_digests"
                          /\ ~fetch_digests_ready(call_from)
                  THEN /\ call_pc' = "idle"
                       /\ UNCHANGED call_result
                  ELSE /\ call_pc' = "returned"
                       /\ call_result' = Answer(call_site, call_from)
    /\ UNCHANGED <<total, call_site, call_from, wait_ms, slept, polls,
                   restVars>>

\* retry, lines 32-33: the wait, then the next wait is multiplied (a u64
\* that three multiplications by 10 leave far from its width)
RetrySleep ==
    /\ call_pc = "sleep"
    /\ slept' = Append(slept, wait_ms)
    /\ wait_ms' = wait_ms * retry_rpc_args.exponential_backoff_multiplier
    /\ call_pc' = "job"
    /\ UNCHANGED <<total, call_site, call_from, retries, attempts, polls,
                   call_result, restVars>>

\* fetch_digests, lines 38-40 and 21: sleep(SLEEP_ON_NO_NEW_TXS), then the
\* loop calls retry_rpc again
FetchDigestsIdle ==
    /\ call_pc = "idle"
    /\ polls < MaxPolls
    /\ polls' = polls + 1
    /\ call_pc' = "job"
    /\ retries' = retry_rpc_args.max_retries
    /\ wait_ms' = retry_rpc_args.wait_ms
    /\ attempts' = 0
    /\ slept' = <<>>
    /\ UNCHANGED <<total, call_site, call_from, call_result, restVars>>

\* boot.rs, line 69: get_total_transaction_number().await?
DirectJob ==
    /\ call_pc = "direct"
    /\ attempts' = attempts + 1
    /\ call_pc' = "returned"
    /\ \E job_ok \in BOOLEAN :
          call_result' = IF job_ok THEN Answer(call_site, call_from)
                         ELSE CallError
    /\ UNCHANGED <<total, call_site, call_from, retries, wait_ms, slept,
                   polls, restVars>>

(***************************************************************************)
(* The store operations of one module on their own, called in any order:   *)
(* a caller of the tx-iterator's db module (table `txs`) or of the db      *)
(* crate (table `digests`) prepares a batch, gives it to insert_digests,   *)
(* or marks rows of `digests`.  pc remembers the module and its last       *)
(* operation.                                                              *)
(***************************************************************************)
StoreDigests == {DigestAt(s) : s \in 0..(NumStoreDigests - 1)}

\* (0..digests_count).map(|_| "?").join(","): a text is the sequence of
\* its pieces
RECURSIVE Placeholders(_)
Placeholders(digests_count) ==
    IF digests_count = 0 THEN <<>>
    ELSE IF digests_count = 1 THEN <<"?">>
    ELSE <<"?", ",">> \o Placeholders(digests_count - 1)

\* insert_digest_query of tx-iterator, db.rs lines 83-89
insert_digest_query(digests_count) ==
    <<"INSERT INTO ", "txs", " (digest) VALUES (">>
        \o Placeholders(digests_count) \o <<") ON CONFLICT DO NOTHING">>

\* insert_digest_query of the db crate, lib.rs lines 104-110
db_insert_digest_query(digests_count) ==
    <<"INSERT INTO ", "digests", " (digest) VALUES (">>
        \o Placeholders(digests_count) \o <<") ON CONFLICT DO NOTHING">>

\* insert_digest_query refuses an empty batch
Batches == UNION {[1..n -> StoreDigests] : n \in 1..MaxBatch}

\* everything the store operations leave alone
storeRest ==
    <<total, is_leader, next_fetch_from_seqnum, spawned_as, fetch_from_seqnum,
      latest_db_digest, db_only_digests, rpc_only_digests,
      rpc_only_digests_timestamps, handed, rpc_call, boot_seqnum, drained, ppc,
      claimed, ids_to_mark_processed, puller_txs, callVars, interestVars,
      initial_seq_num, streamVars>>

TxsPcs == {"txs_store", "txs_inserted", "txs_inserted_again"}

DigestsPcs ==
    {"digests_store", "digests_inserted", "digests_inserted_again",
     "digests_marked"}

StoreBatch ==
    /\ \E ds \in Batches : digests' = ds
    /\ pc' = IF pc \in TxsPcs THEN "txs_store" ELSE "digests_store"
    /\ UNCHANGED <<tbl_txs, tbl_digests, query, storeRest>>

\* tx-iterator db.rs, lines 73-81
StoreInsertTxs ==
    /\ pc \in TxsPcs
    /\ digests # <<>>
    /\ query' = insert_digest_query(Len(digests))
    /\ tbl_txs' = insert_digests(digests)
    /\ pc' = IF pc \in {"txs_inserted", "txs_inserted_again"}
             THEN "txs_inserted_again" ELSE "txs_inserted"
    /\ UNCHANGED <<tbl_digests, digests, storeRest>>

\* db crate, lines 94-102
StoreInsertDigests ==
    /\ pc \in DigestsPcs
    /\ digests # <<>>
    /\ query' = db_insert_digest_query(Len(digests))
    /\ tbl_digests' = InsertDigestRows(tbl_digests, digests)
    /\ pc' = IF pc \in {"digests_inserted", "digests_inserted_again"}
             THEN "digests_inserted_again" ELSE "digests_inserted"
    /\ UNCHANGED <<tbl_txs, digests, storeRest>>

\* db crate, lines 142-157: a statement that fails changes nothing
StoreMark ==
    /\ pc \in DigestsPcs
    /\ \E ids \in UNION {[1..n -> 1..(Len(tbl_digests) + 1)] : n \in 1..MaxBatch} :
          tbl_digests' = IF mark_digests_as_processed_ok(ids)
                         THEN mark_digests_as_processed(ids)
                         ELSE tbl_digests
    /\ pc' = "digests_marked"
    /\ UNCHANGED <<tbl_txs, digests, query, storeRest>>

(***************************************************************************)
(* Boot of the tx-iterator (main.rs 26-53, boot.rs 43-73, conf.rs 77-130). *)
(***************************************************************************)
\* find_seqnum_to_start_iterating_from, lines 62-72: latest_db_digest is
\* None, the result is the node's total transaction number; the Conf is not
\* among its arguments
find_seqnum_to_start_iterating_from == total

\* main.rs 36-52: the status cells are made and the loop of the role is
\* entered, unless the one request to the node fails
Boot ==
    /\ pc = "boot"
    /\ \E rpc_ok \in BOOLEAN :
          IF rpc_ok
          THEN /\ next_fetch_from_seqnum' = find_seqnum_to_start_iterating_from
               /\ boot_seqnum' = find_seqnum_to_start_iterating_from
               /\ is_leader' = (spawned_as = "leader")
               /\ pc' = IF spawned_as = "leader" THEN "leader_prime"
                        ELSE "support_boot"
          ELSE /\ pc' = "failed"
               /\ UNCHANGED <<next_fetch_from_seqnum, boot_seqnum, is_leader>>
    /\ UNCHANGED <<total, tbl_txs, tbl_digests, spawned_as, fetch_from_seqnum,
                   digests, latest_db_digest, db_only_digests,
                   rpc_only_digests, rpc_only_digests_timestamps, handed, rpc_call,
                   drained, ppc, claimed, ids_to_mark_processed, puller_txs,
                   callVars, interestVars, initial_seq_num,
                   query, streamVars>>

(***************************************************************************)
(* The environment, for as long as the process runs: the RPC node learns   *)
(* of a transaction; another tx-iterator replica writes a digest into the  *)
(* table, its digests in the order of their seqnums.                       *)
(***************************************************************************)
RpcAdvance ==
    /\ UNCHANGED pullerVars
    /\ pc # "failed"
    /\ total < MaxSeq
    /\ total' = total + 1
    /\ UNCHANGED <<tbl_txs, tbl_digests, is_leader, next_fetch_from_seqnum,
                   pc, spawned_as, fetch_from_seqnum, digests, latest_db_digest,
                   db_only_digests, rpc_only_digests,
                   rpc_only_digests_timestamps, handed,
                   rpc_call>>

OtherLeaderInsert ==
    /\ UNCHANGED pullerVars
    /\ pc # "failed"
    /\ Cardinality({i \in 1..Len(tbl_txs) : tbl_txs[i].by = "other"}) < MaxOtherRows
    /\ \E d \in AllDigests \ TxsDigests :
          /\ \A i \in 1..Len(tbl_txs) :
                 tbl_txs[i].by = "other" => tbl_txs[i].digest < d
          /\ tbl_txs' = InsertRows(tbl_txs, <<d>>, "other")
    /\ UNCHANGED <<total, tbl_digests, is_leader, next_fetch_from_seqnum,
                   pc, spawned_as, fetch_from_seqnum, digests, latest_db_digest,
                   db_only_digests, rpc_only_digests,
                   rpc_only_digests_timestamps, handed,
                   rpc_call>>

(***************************************************************************)
(* Initial states and specifications.                                      *)
(***************************************************************************)
NoResult == [promote |-> FALSE, start_leader_from_seqnum |-> 0,
             timestamps |-> <<>>, queried |-> <<>>]

\* no RPC call is looked at on its own
NoCallResult == [ok |-> FALSE, seq_num |-> 0, digests |-> <<>>]

CallOff ==
    /\ call_site = "none"
    /\ call_from = 0
    /\ call_pc = "off"
    /\ retries = 0
    /\ wait_ms = 0
    /\ attempts = 0
    /\ slept = <<>>
    /\ polls = 0
    /\ call_result = NoCallResult

\* no classification is looked at on its own
InterestOff ==
    /\ interest_tx = <<>>
    /\ interest_bloom = {}
    /\ interest_result = "none"

\* the tx-iterator before main has run
IteratorOff ==
    /\ total = 0
    /\ spawned_as = "leader"
    /\ is_leader = TRUE
    /\ next_fetch_from_seqnum = 0
    /\ pc = "off"
    /\ fetch_from_seqnum = 0
    /\ digests = <<>>
    /\ latest_db_digest = 0
    /\ db_only_digests = {}
    /\ handed = <<>>
    /\ rpc_call = <<>>
    /\ boot_seqnum = 0

PullersIdle ==
    /\ ppc = [p \in Pullers |-> "idle"]
    /\ claimed = [p \in Pullers |-> {}]
    /\ ids_to_mark_processed = [p \in Pullers |-> <<>>]
    /\ puller_txs = [p \in Pullers |-> <<>>]

\* main.rs 36-52 with boot.rs 43-73: the seqnum published at boot is the
\* node's total transaction number
Init ==
    /\ total \in 0..MaxSeq
    /\ tbl_txs = <<>>
    /\ tbl_digests = <<>>
    /\ spawned_as \in {"leader", "support"}
    /\ is_leader = (spawned_as = "leader")
    /\ next_fetch_from_seqnum = total
    /\ pc = IF spawned_as = "leader" THEN "leader_prime" ELSE "support_boot"
    /\ fetch_from_seqnum = 0
    /\ digests = <<>>
    /\ latest_db_digest = 0
    /\ db_only_digests = {}
    /\ rpc_only_digests = [d \in {} |-> 0]
    /\ rpc_only_digests_timestamps = <<>>
    /\ handed = <<>>
    /\ rpc_call = <<>>
    /\ boot_seqnum = total
    /\ drained = NoResult
    /\ PullersIdle
    /\ CallOff
    /\ InterestOff
    /\ initial_seq_num = <<>>
    /\ query = <<>>
    /\ initial_db_only_digests = <<>>
    /\ db_stream = <<>>

Next ==
    \/ LeaderPrime
    \/ LeaderInsert
    \/ LeaderRetry
    \/ LeaderFetch
    \/ SupportBoot
    \/ SupportIteration
    \/ SupportRetry
    \/ PromoteIsLeader
    \/ PromoteInsert
    \/ Tick
    \/ RpcAdvance
    \/ OtherLeaderInsert

Spec == Init /\ [][Next]_vars

\* one step of the iterator process, whichever its position
IteratorStep ==
    \/ LeaderPrime
    \/ LeaderInsert
    \/ LeaderRetry
    \/ LeaderFetch
    \/ SupportBoot
    \/ SupportIteration
    \/ SupportRetry
    \/ PromoteIsLeader
    \/ PromoteInsert

\* the process keeps running its loop and the clock keeps advancing; the
\* node and the other replica are free to stop
FairSpec ==
    /\ Init
    /\ [][Next]_vars
    /\ WF_vars(IteratorStep)
    /\ WF_vars(Tick)

\* the tables of `digests` the pullers may find: rows 1..n, each processed
\* or not
InitialDigestTables ==
    UNION {[1..n -> [digest : AllDigests, status : {0, 1}]] : n \in 0..MaxRows}

InitPuller ==
    /\ IteratorOff
    /\ tbl_txs = <<>>
    /\ rpc_only_digests = [d \in {} |-> 0]
    /\ rpc_only_digests_timestamps = <<>>
    /\ drained = NoResult
    /\ PullersIdle
    /\ CallOff
    /\ InterestOff
    /\ initial_seq_num = <<>>
    /\ query = <<>>
    /\ initial_db_only_digests = <<>>
    /\ db_stream = <<>>
    /\ tbl_digests \in {t \in InitialDigestTables :
                            \A i \in 1..Len(t) : t[i].digest = DigestAt(i - 1)}

NextPuller ==
    \E p \in Pullers :
        \/ PullerClaim(p)
        \/ PullerFetch(p)
        \/ PullerWrite(p)
        \/ PullerCrash(p)
        \/ PullerRestart(p)

SpecPuller == InitPuller /\ [][NextPuller]_vars

\* every puller keeps running its loop and is started again when its process
\* has ended; nothing obliges a transaction to be cut short
FairSpecPuller ==
    /\ InitPuller
    /\ [][NextPuller]_vars
    /\ \A p \in Pullers :
           /\ WF_vars(PullerClaim(p))
           /\ WF_vars(PullerFetch(p))
           /\ WF_vars(PullerWrite(p))
           /\ WF_vars(PullerRestart(p))

\* a leader replica and the pullers side by side, each on the table its
\* statements name
InitFlow ==
    /\ Init
    /\ spawned_as = "leader"

NextFlow ==
    \/ LeaderPrime
    \/ LeaderInsert
    \/ LeaderRetry
    \/ LeaderFetch
    \/ RpcAdvance
    \/ NextPuller

SpecFlow == InitFlow /\ [][NextFlow]_vars

(***************************************************************************)
(* One RPC call on its own: any call site, any argument, any node.         *)
(***************************************************************************)
InitRpc ==
    /\ total \in 0..MaxSeq
    /\ tbl_txs = <<>>
    /\ rpc_only_digests = <<>>
    /\ rpc_only_digests_timestamps = <<>>
    /\ IteratorOff
    /\ PullersIdle
    /\ tbl_digests = <<>>
    /\ drained = NoResult
    /\ call_site \in CallSites
    /\ call_from \in IF call_site \in {"fetch_digests", "digest"}
                     THEN 0..MaxSeq ELSE {0}
    /\ call_pc = "call"
    /\ retries = 0
    /\ wait_ms = 0
    /\ attempts = 0
    /\ slept = <<>>
    /\ polls = 0
    /\ call_result = NoCallResult
    /\ InterestOff
    /\ initial_seq_num = <<>>
    /\ query = <<>>
    /\ initial_db_only_digests = <<>>
    /\ db_stream = <<>>

NextRpc ==
    \/ CallBegin
    \/ RetryJob
    \/ RetrySleep
    \/ FetchDigestsIdle
    \/ DirectJob
    \/ RpcAdvance

SpecRpc == InitRpc /\ [][NextRpc]_vars

(***************************************************************************)
(* The store operations on their own, from the empty tables.               *)
(***************************************************************************)
InitStore ==
    /\ pc \in {"txs_store", "digests_store"}
    /\ total = 0
    /\ spawned_as = "leader"
    /\ is_leader = TRUE
    /\ next_fetch_from_seqnum = 0
    /\ fetch_from_seqnum = 0
    /\ digests = <<>>
    /\ latest_db_digest = 0
    /\ db_only_digests = {}
    /\ handed = <<>>
    /\ rpc_call = <<>>
    /\ boot_seqnum = 0
    /\ PullersIdle
    /\ CallOff
    /\ InterestOff
    /\ initial_seq_num = <<>>
    /\ query = <<>>
    /\ initial_db_only_digests = <<>>
    /\ db_stream = <<>>
    /\ tbl_txs = <<>>
    /\ tbl_digests = <<>>
    /\ rpc_only_digests = <<>>
    /\ rpc_only_digests_timestamps = <<>>
    /\ drained = NoResult

NextStore ==
    \/ StoreBatch
    \/ StoreInsertTxs
    \/ StoreInsertDigests
    \/ StoreMark

SpecStore == InitStore /\ [][NextStore]_vars

(***************************************************************************)
(* is_tx_of_interest on its own: any response, any filter.                 *)
(***************************************************************************)
InitInterest ==
    /\ IteratorOff
    /\ PullersIdle
    /\ CallOff
    /\ tbl_txs = <<>>
    /\ tbl_digests = <<>>
    /\ rpc_only_digests = <<>>
    /\ rpc_only_digests_timestamps = <<>>
    /\ drained = NoResult
    /\ interest_tx \in TxResponses
    /\ interest_bloom \in Filters
    /\ interest_result = "none"
    /\ initial_seq_num = <<>>
    /\ query = <<>>
    /\ initial_db_only_digests = <<>>
    /\ db_stream = <<>>

NextInterest == Classify

SpecInterest == InitInterest /\ [][NextInterest]_vars

(***************************************************************************)
(* Boot on its own: any environment, any node.                             *)
(***************************************************************************)
InitBoot ==
    /\ total \in 0..MaxSeq
    /\ initial_seq_num \in {<<>>} \cup {<<n>> : n \in 0..MaxSeq}
    /\ spawned_as \in {"leader", "support"}
    /\ pc = "boot"
    /\ is_leader = FALSE
    /\ next_fetch_from_seqnum = 0
    /\ fetch_from_seqnum = 0
    /\ digests = <<>>
    /\ latest_db_digest = 0
    /\ db_only_digests = {}
    /\ handed = <<>>
    /\ rpc_call = <<>>
    /\ boot_seqnum = 0
    /\ tbl_txs = <<>>
    /\ tbl_digests = <<>>
    /\ rpc_only_digests = <<>>
    /\ rpc_only_digests_timestamps = <<>>
    /\ drained = NoResult
    /\ PullersIdle
    /\ CallOff
    /\ InterestOff
    /\ query = <<>>
    /\ initial_db_only_digests = <<>>
    /\ db_stream = <<>>

NextBoot ==
    \/ Boot
    \/ RpcAdvance

SpecBoot == InitBoot /\ [][NextBoot]_vars

(***************************************************************************)
(* pop_observed_digests on its own: any map, any time-ordered FIFO over    *)
(* two digests and any table, then one call.                               *)
(***************************************************************************)
DrainDigests == {DigestAt(0), DigestAt(1)}

DrainEntries == [age : 0..(InvestigateAfter + 1), digest : DrainDigests]

\* the FIFO is pushed at the back with the current time: ages never
\* increase from front to back
DrainFifos ==
    {f \in UNION {[1..n -> DrainEntries] : n \in 0..MaxPending} :
         \A i \in 1..(Len(f) - 1) : f[i].age >= f[i + 1].age}

DrainMaps ==
    UNION {[ds -> {1, 2}] : ds \in SUBSET DrainDigests}

InitDrain ==
    /\ IteratorOff
    /\ PullersIdle
    /\ CallOff
    /\ InterestOff
    /\ initial_seq_num = <<>>
    /\ query = <<>>
    /\ initial_db_only_digests = <<>>
    /\ db_stream = <<>>
    /\ tbl_digests = <<>>
    /\ drained = NoResult
    /\ rpc_only_digests_timestamps \in DrainFifos
    /\ rpc_only_digests \in DrainMaps
    /\ \E ds \in SUBSET DrainDigests :
          tbl_txs = InsertRows(<<>>, SortedIds(ds), "other")

ApplyDrain ==
    /\ pc = "off"
    /\ drained' = pop_observed_digests(rpc_only_digests,
                      rpc_only_digests_timestamps, tbl_txs)
    /\ pc' = "drained"
    /\ UNCHANGED <<total, tbl_txs, tbl_digests, is_leader,
                   next_fetch_from_seqnum, spawned_as, fetch_from_seqnum,
                   digests, latest_db_digest, db_only_digests,
                   rpc_only_digests, rpc_only_digests_timestamps, handed, rpc_call,
                   boot_seqnum, ppc, claimed, ids_to_mark_processed,
                   puller_txs, callVars, interestVars, initial_seq_num,
                   query, streamVars>>

NextDrain == ApplyDrain

SpecDrain == InitDrain /\ [][NextDrain]_vars

(***************************************************************************)
(* C2: pop_observed_digests returns Promote(s) exactly when the front of   *)
(* the FIFO, once every leading entry that is absent from the map or is    *)
(* aged and in the table has been popped, is older than the threshold, is  *)
(* a key of the map and is not in the table, and then s is the seqnum the  *)
(* map holds for it; otherwise it returns No.  The FIFO is left at that    *)
(* front, and has_digest is asked only about entries older than the        *)
(* threshold.                                                              *)
(***************************************************************************)
DrainSkipped(e) ==
    \/ e.digest \notin DOMAIN rpc_only_digests
    \/ /\ e.age > InvestigateAfter
       /\ \E i \in 1..Len(tbl_txs) : tbl_txs[i].digest = e.digest

\* the FIFO without its longest prefix of skipped entries
DrainFront ==
    LET f == rpc_only_digests_timestamps
        stops == {i \in 1..Len(f) : ~DrainSkipped(f[i])}
    IN  IF stops = {} THEN <<>>
        ELSE SubSeq(f, CHOOSE i \in stops : \A j \in stops : i <= j, Len(f))

C2_DrainVerdict ==
    pc = "drained" =>
        LET front == DrainFront
            promote ==
                /\ front # <<>>
                /\ front[1].age > InvestigateAfter
                /\ front[1].digest \in DOMAIN rpc_only_digests
                /\ ~\E i \in 1..Len(tbl_txs) : tbl_txs[i].digest = front[1].digest
        IN  /\ drained.promote = promote
            /\ drained.promote =>
                   drained.start_leader_from_seqnum =
                       rpc_only_digests[front[1].digest]
            /\ drained.timestamps = front
            /\ \A i \in 1..Len(drained.queried) :
                   drained.queried[i].age > InvestigateAfter

\* a call that asked the table about an aged entry, skipped it, and promoted
\* on the next one
C2_Witness ==
    /\ pc = "drained"
    /\ drained.promote
    /\ Len(drained.queried) >= 2
    /\ Len(drained.timestamps) < Len(rpc_only_digests_timestamps)

(***************************************************************************)
(* Claims about the tx-iterator process, checked under Spec.               *)
(***************************************************************************)
SeqnumOf(d) == CHOOSE s \in Seqnums : DigestAt(s) = d

MyRows == {i \in 1..Len(tbl_txs) : tbl_txs[i].by = "me"}

OtherRows == {i \in 1..Len(tbl_txs) : tbl_txs[i].by = "other"}

LeaderLoopPcs ==
    {"leader_prime", "leader_insert", "leader_retry", "leader_fetch"}

PromotedPcs == {"promote_is_leader", "promote_insert"} \cup LeaderLoopPcs

\* the batches the leader loop handed to insert_digests, one after the
\* other, each counted once however often its insert was retried
RECURSIVE LoopDigests(_)
LoopDigests(h) ==
    IF h = <<>> THEN <<>>
    ELSE (IF Head(h).in_loop /\ ~Head(h).retry THEN Head(h).batch ELSE <<>>)
             \o LoopDigests(Tail(h))

(***************************************************************************)
(* C1: once the node returns to the support loop a digest, at a seqnum of  *)
(* the range it fetches, that is not in the table, the process eventually  *)
(* becomes leader unless the digest reaches the table or a call fails.     *)
(***************************************************************************)
ReturnedAndMissing ==
    {s \in Seqnums :
        /\ fetch_from_seqnum <= s
        /\ s < fetch_from_seqnum + FETCH_TX_DIGESTS_BATCH
        /\ s < total
        /\ DigestAt(s) \notin TxsDigests}

C1_MissingDigestLeadsToPromotion ==
    (pc = "support" /\ ReturnedAndMissing # {})
        ~> (is_leader \/ ReturnedAndMissing = {} \/ pc = "failed")

(***************************************************************************)
(* C3: is_leader only ever changes from false to true, and a process that  *)
(* has left the support loop to promote itself never runs a support        *)
(* iteration again.                                                        *)
(***************************************************************************)
C3_PromotionMonotone ==
    [][/\ is_leader => is_leader'
       /\ pc \in PromotedPcs => pc' \notin {"support_boot", "support"}]_vars

\* a process spawned as support that runs the leader loop as leader
C3_Witness ==
    /\ spawned_as = "support"
    /\ is_leader
    /\ pc = "leader_fetch"

(***************************************************************************)
(* C4: every insert_digests call of a tx-iterator process is made while    *)
(* its own is_leader is true; a row it wrote implies it is leader.         *)
(***************************************************************************)
C4_InsertOnlyAsLeader ==
    /\ \A i \in 1..Len(handed) : handed[i].by_leader
    /\ MyRows # {} => is_leader

\* the promotion of a support has inserted the outstanding digests
C4_Witness ==
    /\ spawned_as = "support"
    /\ handed # <<>>
    /\ ~handed[1].in_loop
    /\ MyRows # {}

(***************************************************************************)
(* C5: with no other writer, the rows a process spawned as leader has      *)
(* inserted are as many as the digests of the batches its loop handed to   *)
(* insert_digests, and no digest was handed over twice.                    *)
(***************************************************************************)
C5_EveryFetchedDigestInsertedOnce ==
    (spawned_as = "leader" /\ OtherRows = {} /\ pc = "leader_fetch") =>
        LET ds == LoopDigests(handed)
        IN  /\ Cardinality(MyRows) = Len(ds)
            /\ \A i, j \in 1..Len(ds) : i # j => ds[i] # ds[j]

(***************************************************************************)
(* C6: during the promotion hand-off and the leader loop the published     *)
(* next_fetch_from_seqnum never decreases, and every completed iteration   *)
(* of the leader loop strictly increases it.                               *)
(***************************************************************************)
C6_StatusSeqnumIncreases ==
    [][/\ pc \in {"promote_insert"} \cup LeaderLoopPcs =>
              next_fetch_from_seqnum' >= next_fetch_from_seqnum
       /\ (pc = "leader_fetch" /\ pc' = "leader_insert") =>
              next_fetch_from_seqnum' > next_fetch_from_seqnum]_vars

\* two iterations completed after a promotion hand-off
C6_Witness ==
    /\ spawned_as = "support"
    /\ pc = "leader_insert"
    /\ Len(LoopDigests(handed)) >= 2
    /\ next_fetch_from_seqnum > boot_seqnum + 1

(***************************************************************************)
(* C7: the rows a process wrote are in RPC order: of two of them the one   *)
(* with the lower id holds the digest with the lower seqnum.               *)
(***************************************************************************)
C7_InsertedInRpcOrder ==
    \A i, j \in MyRows :
        i < j => SeqnumOf(tbl_txs[i].digest) < SeqnumOf(tbl_txs[j].digest)

\* three rows of this process around a row of another writer, after a
\* batch of several digests was inserted again on a new connection
C7_Witness ==
    /\ Cardinality(MyRows) >= 3
    /\ \E k \in OtherRows : \E i, j \in MyRows : i < k /\ k < j
    /\ \E i \in 1..Len(handed) : handed[i].retry /\ Len(handed[i].batch) >= 2

(***************************************************************************)
(* C8: during the leader loop of a process spawned as leader, no digest    *)
(* with a seqnum from the boot seqnum up to, but excluding, the published  *)
(* next_fetch_from_seqnum is missing from the table: a run restarted from  *)
(* the published value skips nothing.                                      *)
(***************************************************************************)
C8_NothingBelowPublishedIsMissing ==
    (spawned_as = "leader" /\ pc \in LeaderLoopPcs) =>
        \A s \in Seqnums :
            (boot_seqnum <= s /\ s < next_fetch_from_seqnum) =>
                DigestAt(s) \in TxsDigests

(***************************************************************************)
(* C9: every digest written by the tx-iterator's insert_digests is an      *)
(* entry of the log that select_and_lock_unprocessed_digests reads.        *)
(***************************************************************************)
C9_InsertedDigestsReachPullerLog ==
    \A i \in MyRows :
        \E j \in 1..Len(tbl_digests) : tbl_digests[j].digest = tbl_txs[i].digest

(***************************************************************************)
(* C10: no row of `digests` is held by the open transactions of two        *)
(* pullers at once.                                                        *)
(***************************************************************************)
C10_ClaimsDisjoint ==
    \A p \in Pullers : \A q \in Pullers \ {p} :
        (ppc[p] \in OpenTx /\ ppc[q] \in OpenTx) =>
            claimed[p] \cap claimed[q] = {}

\* two transactions are open at once and each holds rows
C10_Witness ==
    \E p \in Pullers : \E q \in Pullers \ {p} :
        /\ ppc[p] = "in_tx" /\ ppc[q] = "in_tx"
        /\ claimed[p] # {} /\ claimed[q] # {}

(***************************************************************************)
(* Claims about the tx-puller processes, checked under SpecPuller.         *)
(***************************************************************************)
\* rows of `digests` that are Unprocessed
Unprocessed == {i \in 1..Len(tbl_digests) : tbl_digests[i].status = 0}

\* rows of `txs` written by a puller
Bodies == {i \in 1..Len(tbl_txs) : tbl_txs[i].by = "puller"}

(***************************************************************************)
(* C11: when the transaction of a puller ends without a commit, every row  *)
(* it had claimed is still Unprocessed, is locked by nobody, is among the  *)
(* rows a next claim may return, and no body has been persisted.           *)
(***************************************************************************)
C11_AbortReleasesClaim ==
    [][\A p \in Pullers :
          (ppc[p] \in OpenTx /\ ppc'[p] \in Ended) =>
              /\ tbl_txs' = tbl_txs
              /\ \A id \in claimed[p] :
                    /\ tbl_digests'[id].status = 0
                    /\ id \notin LockedBy(Pullers)'
                    /\ \E q \in Pullers :
                          \E ids \in select_and_lock_unprocessed_digests(
                                         q, BATCH_SIZE)' : id \in ids]_vars

\* the only Unprocessed row was fetched by a puller whose insert then failed,
\* and is now held by the open transaction of another puller
C11_Witness ==
    \E p \in Pullers : \E q \in Pullers \ {p} :
        /\ ppc[p] = "failed_insert"
        /\ ppc[q] \in OpenTx
        /\ Cardinality(Unprocessed) = 1
        /\ claimed[q] = Unprocessed
        /\ Bodies = {}

(***************************************************************************)
(* C12: the transaction of a puller iteration ends either with the bodies  *)
(* inserted and the fetched ids marked, both, or with both tables as they  *)
(* were, also when only one of the two statements failed; no other step    *)
(* changes the tables.                                                     *)
(***************************************************************************)
C12_IterationAtomic ==
    [][/\ \A p \in Pullers :
             (ppc[p] = "fetched" /\ ppc'[p] # "fetched") =>
                 \/ /\ ppc'[p] = "idle"
                    /\ tbl_txs' = tbl_txs \o puller_txs[p]
                    /\ tbl_digests' =
                           mark_digests_as_processed(ids_to_mark_processed[p])
                 \/ /\ ppc'[p] \in Ended
                    /\ tbl_txs' = tbl_txs
                    /\ tbl_digests' = tbl_digests
       /\ (\A p \in Pullers : ppc[p] = "fetched" => ppc'[p] = "fetched") =>
              (tbl_txs' = tbl_txs /\ tbl_digests' = tbl_digests)]_vars

\* the update of an iteration was fine and its insert failed: the row it had
\* fetched is Unprocessed still
C12_Witness ==
    \E p \in Pullers :
        /\ ppc[p] = "failed_insert"
        /\ Cardinality(Unprocessed) = 1
        /\ \A q \in Pullers \ {p} : ppc[q] = "idle"
        /\ Bodies = {}

(***************************************************************************)
(* C13: an iteration whose statements are run commits, whatever was        *)
(* claimed and fetched; after it a claimed row is Processed exactly if its *)
(* body was fetched, and has a body with its id as order exactly if the    *)
(* fetched body was of interest.                                           *)
(***************************************************************************)
C13_IterationCommitsClassified ==
    [][\A p \in Pullers :
          (ppc[p] = "fetched" /\ ppc'[p] \notin {"fetched", "crashed"}) =>
              /\ ppc'[p] = "idle"
              /\ \A id \in claimed[p] :
                    /\ tbl_digests'[id].status = 1
                           <=> id \in Range(ids_to_mark_processed[p])
                    /\ (\E i \in 1..Len(tbl_txs') :
                            tbl_txs'[i].by = "puller" /\ tbl_txs'[i].order = id)
                           <=> (\E i \in 1..Len(puller_txs[p]) :
                                    puller_txs[p][i].order = id)]_vars

(***************************************************************************)
(* C14: table `txs` holds at most one entry per digest, and the order of   *)
(* every entry is the id of a Processed row of table `digests`.            *)
(***************************************************************************)
C14_BodiesUniqueAndProcessed ==
    /\ \A i, j \in 1..Len(tbl_txs) :
           i # j => tbl_txs[i].digest # tbl_txs[j].digest
    /\ \A i \in 1..Len(tbl_txs) :
           \E j \in 1..Len(tbl_digests) :
               tbl_digests[j].status = 1 /\ tbl_txs[i].order = j

\* the body fetch of row id has just failed in an open iteration
FetchFailed(id) ==
    \E p \in Pullers :
        /\ ppc[p] = "fetched"
        /\ id \in claimed[p]
        /\ id \notin Range(ids_to_mark_processed[p])

(***************************************************************************)
(* C15: an Unprocessed row is eventually marked Processed unless its own   *)
(* body fetch fails again or a puller dies, whatever the fetches of the    *)
(* other rows do.                                                          *)
(***************************************************************************)
C15_FetchedRowsGetProcessed ==
    \A id \in 1..MaxRows :
        (id \in Unprocessed)
            ~> \/ id \in 1..Len(tbl_digests) /\ tbl_digests[id].status = 1
               \/ FetchFailed(id)
               \/ \E p \in Pullers : ppc[p] = "crashed"

(***************************************************************************)
(* C16: once a support has left its loop on Promote and the published      *)
(* next_fetch_from_seqnum holds start_leader_from_seqnum, the published    *)
(* is_leader is true: a reader of the two cells never sees the one without *)
(* the other.                                                              *)
(***************************************************************************)
C16_PromotionPublishedAtOnce ==
    (spawned_as = "support" /\ pc \in PromotedPcs) => is_leader

(***************************************************************************)
(* Claims about one RPC call, checked under SpecRpc.                       *)
(***************************************************************************)
RetryWaits == <<10, 100, 1000>>

IsPrefix(a, b) == Len(a) <= Len(b) /\ \A i \in 1..Len(a) : a[i] = b[i]

(***************************************************************************)
(* C17: every call of the node runs its job at most 4 times, has waited    *)
(* 10, 100 and 1000 ms before the 2nd, 3rd and 4th run, returns Ok with    *)
(* the first run that succeeds, and returns an error to its caller only    *)
(* after 4 runs have failed.                                               *)
(***************************************************************************)
C17_EveryCallRetried ==
    call_pc # "off" =>
        /\ attempts <= 4
        /\ IsPrefix(slept, RetryWaits)
        /\ call_pc \in {"sleep", "idle", "returned"}
               => Len(slept) = attempts - 1
        /\ call_pc = "returned" /\ ~call_result.ok
               => attempts = 4 /\ slept = RetryWaits

(***************************************************************************)
(* C18: when fetch_digests returns Ok((highest, L)), L is not empty, holds *)
(* the digests of the node from the requested seqnum on, and highest is    *)
(* the seqnum of the last of them; a poll that finds the range empty does  *)
(* not return Ok; and fetch_digests returns an error only when the 4th run *)
(* of one poll has failed.                                                 *)
(***************************************************************************)
C18_FetchDigestsNeverEmpty ==
    [][(call_site = "fetch_digests" /\ call_pc # "returned"
            /\ call_pc' = "returned")
        => IF call_result'.ok
           THEN /\ fetch_digests_ready(call_from)
                /\ call_result'.digests # <<>>
                /\ \A i \in 1..Len(call_result'.digests) :
                       call_result'.digests[i] = DigestAt(call_from + i - 1)
                /\ call_result'.seq_num
                       = call_from + Len(call_result'.digests) - 1
                /\ call_result'.seq_num < total
           ELSE attempts' = 4]_vars

C18_Witness ==
    /\ call_site = "fetch_digests"
    /\ call_pc = "returned"
    /\ call_result.ok
    /\ polls > 0
    /\ Len(call_result.digests) < FETCH_TX_DIGESTS_BATCH

(***************************************************************************)
(* Claims about the store operations, checked under SpecStore.             *)
(***************************************************************************)
\* the rows of after beyond those of before hold the digests of ds that
\* before lacks, each once, in the order of their first place in ds
InBatchOrder(before, after, ds) ==
    /\ {after[i].digest : i \in 1..Len(after)}
           = {before[i].digest : i \in 1..Len(before)} \cup Range(ds)
    /\ \A i, j \in (Len(before) + 1)..Len(after) :
           i < j =>
               \E k \in 1..Len(ds) :
                   /\ ds[k] = after[i].digest
                   /\ \A l \in 1..k : ds[l] # after[j].digest

(***************************************************************************)
(* C19: insert_digests given the same batch twice leaves the table as      *)
(* the first call left it; every call leaves the rows that were there      *)
(* with their ids, and the new digests of the batch follow them in batch   *)
(* order -- for the tx-iterator's insert_digests and for the db crate's,   *)
(* whose rows keep their status and whose new rows are Unprocessed.        *)
(***************************************************************************)
C19_InsertDigestsIdempotent ==
    [][/\ pc' = "txs_inserted_again" => tbl_txs' = tbl_txs
       /\ pc' = "digests_inserted_again" => tbl_digests' = tbl_digests
       /\ pc' \in {"txs_inserted", "txs_inserted_again"}
              => /\ IsPrefix(tbl_txs, tbl_txs')
                 /\ InBatchOrder(tbl_txs, tbl_txs', digests)
       /\ pc' \in {"digests_inserted", "digests_inserted_again"}
              => /\ IsPrefix(tbl_digests, tbl_digests')
                 /\ InBatchOrder(tbl_digests, tbl_digests', digests)
                 /\ \A i \in (Len(tbl_digests) + 1)..Len(tbl_digests') :
                        tbl_digests'[i].status = 0]_vars

C19_Witness ==
    /\ pc = "digests_inserted_again"
    /\ Len(digests) = 2
    /\ digests[1] # digests[2]
    /\ Len(tbl_digests) = 2
    /\ tbl_digests[1].digest = digests[2]
    /\ tbl_digests[1].status = 1

(***************************************************************************)
(* C20: the digests of the log are unique; no operation removes an entry   *)
(* or changes the digest at an id; and a status is 0 or 1 and never goes   *)
(* from 1 to 0.                                                            *)
(***************************************************************************)
C20_LogEntriesKept ==
    [][/\ \A i, j \in 1..Len(tbl_digests') :
              tbl_digests'[i].digest = tbl_digests'[j].digest => i = j
       /\ Len(tbl_digests) <= Len(tbl_digests')
       /\ \A i \in 1..Len(tbl_digests) :
              /\ tbl_digests'[i].digest = tbl_digests[i].digest
              /\ tbl_digests'[i].status \in {0, 1}
              /\ tbl_digests[i].status <= tbl_digests'[i].status]_vars

C20_Witness ==
    /\ pc = "digests_marked"
    /\ Len(tbl_digests) = 2
    /\ tbl_digests[1].status = 1
    /\ tbl_digests[2].status = 0

(***************************************************************************)
(* Claims about is_tx_of_interest, checked under SpecInterest.             *)
(***************************************************************************)
\* the keys of a response: its sender; the ids of its gas, created,
\* mutated, unwrapped, shared, deleted and wrapped objects; the address of
\* every such object owned by an address; of every event the package_id, the
\* sender and package_id || module || type, and of a transfer or new-object
\* event the owner address of the recipient
ListedKeys(tx) ==
    LET owned_objs == <<tx.gas_object>> \o tx.created \o tx.mutated
                          \o tx.unwrapped
        objs == tx.shared_objects \o tx.deleted \o tx.wrapped
        ev == {tx.events[i] : i \in 1..Len(tx.events)}
               \ {e \in Events : e.kind \in {"Checkpoint", "EpochChange"}}
    IN  ({tx.sender}
         \cup {owned_objs[i].object_id : i \in 1..Len(owned_objs)}
         \cup {objs[i] : i \in 1..Len(objs)}
         \cup {owned_objs[i].owner.addr :
                   i \in {j \in 1..Len(owned_objs) :
                              owned_objs[j].owner.kind = "AddressOwner"}}
         \cup {e.package_id : e \in ev}
         \cup {e.sender : e \in ev}
         \cup {e.package_id \o e.transaction_module \o e.type_ :
                   e \in {x \in ev : x.kind = "MoveEvent"}}
         \cup {get_owner_address(e.recipient) :
                   e \in {x \in ev : x.kind \in {"TransferObject",
                                                 "NewObject"}}})
        \ {NoBytes}

(***************************************************************************)
(* C21: is_tx_of_interest returns false for a response whose status is not *)
(* Success, and for a Success response returns true exactly when one of    *)
(* the listed keys of the response is a member of the filter.              *)
(***************************************************************************)
C21_InterestIffListedKey ==
    interest_result # "none" =>
        (interest_result = "true"
            <=> /\ interest_tx.status = "Success"
                /\ ListedKeys(interest_tx) \cap interest_bloom # {})

(***************************************************************************)
(* C22: the seqnum published when boot has finished is INITIAL_SEQ_NUM     *)
(* when the variable is set, and the node's total transaction number when  *)
(* it is not.                                                              *)
(***************************************************************************)
C22_BootFromInitialSeqNum ==
    [][(pc = "boot" /\ pc' \in {"leader_prime", "support_boot"})
        => next_fetch_from_seqnum' =
               IF initial_seq_num # <<>> THEN initial_seq_num[1]
               ELSE total]_vars

(***************************************************************************)
(* C23: the statement insert_digests builds for a batch of n digests is    *)
(* `INSERT INTO txs (digest) VALUES (?,...,?) ON CONFLICT DO NOTHING` with *)
(* n placeholders, the text the test it_builds_insert_digest_query expects *)
(* -- in the tx-iterator and in the db crate.                              *)
(***************************************************************************)
C23_QueryAsTested ==
    pc \in {"txs_inserted", "txs_inserted_again", "digests_inserted",
            "digests_inserted_again"}
        => /\ Len(query) = 2 * Len(digests) + 3
           /\ SubSeq(query, 1, 3)
                  = <<"INSERT INTO ", "txs", " (digest) VALUES (">>
           /\ \A i \in 1..(2 * Len(digests) - 1) :
                  query[3 + i] = IF i % 2 = 1 THEN "?" ELSE ","
           /\ Last(query) = ") ON CONFLICT DO NOTHING"

(***************************************************************************)
(* Claims about the support loop and the promotion, checked under Spec.    *)
(***************************************************************************)
\* the digests the store has delivered to the support by the end of the
\* iteration it is about to run: those not yet paired, and the new ones
StoreStream ==
    db_only_digests
        \cup Range(select_digests_since_exclusive(tbl_txs, latest_db_digest))

(***************************************************************************)
(* C24: a support iteration that starts with nothing pending, whose fetch  *)
(* returns digests that are exactly the ones the store has delivered,      *)
(* leaves db_only and rpc_only empty, publishes highest + 1 and does not   *)
(* promote.                                                                *)
(***************************************************************************)
C24_SupportConfirmsLeader ==
    [][(/\ SupportIteration
        /\ pc' \in {"support", "promote_is_leader"}
        /\ DOMAIN rpc_only_digests = {}
        /\ rpc_only_digests_timestamps = <<>>
        /\ StoreStream = Range(fetch_digests(fetch_from_seqnum).digests))
        => /\ db_only_digests' = {}
           /\ DOMAIN rpc_only_digests' = {}
           /\ next_fetch_from_seqnum'
                  = fetch_digests(fetch_from_seqnum).seq_num + 1
           /\ pc' = "support"]_vars

(***************************************************************************)
(* C25: when the promotion has inserted the outstanding digests, the       *)
(* published next_fetch_from_seqnum is the seqnum of the last of them plus *)
(* one, whatever their number.                                             *)
(***************************************************************************)
C25_HandOffAfterLastInserted ==
    [][(/\ PromoteInsert
        /\ pc' = "leader_prime"
        /\ digests_not_observed_in_db # <<>>)
        => next_fetch_from_seqnum'
               = rpc_only_digests[Last(digests_not_observed_in_db)] + 1]_vars

(***************************************************************************)
(* C26: the list the promotion hands to insert_digests is the FIFO, in its *)
(* order, without the digests that have left rpc_only; its first digest is *)
(* the one whose seqnum pop_observed_digests returned; and when the        *)
(* support leaves its loop none of its digests is among those the store    *)
(* has delivered to the support.                                           *)
(***************************************************************************)
C26_PromotionInsertsUnwritten ==
    [][/\ (PromoteInsert /\ Len(handed') > Len(handed))
           => /\ Last(handed').batch = digests_not_observed_in_db
              /\ rpc_only_digests[Head(Last(handed').batch)]
                     = next_fetch_from_seqnum
       /\ (SupportIteration /\ pc' = "promote_is_leader")
           => Range(digests_not_observed_in_db') \cap StoreStream = {}]_vars

(***************************************************************************)
(* C27: every fetch_digests call of the leader loop, the first after the   *)
(* priming fetch included, starts at the seqnum after the last one the     *)
(* fetch before it returned, and so returns no seqnum a second time.       *)
(***************************************************************************)
C27_LeaderFetchesDoNotOverlap ==
    [][(LeaderFetch /\ pc' = "leader_insert")
        => /\ fetch_from_seqnum = SeqnumOf(Last(digests)) + 1
           /\ Range(digests') \cap Range(digests) = {}]_vars

(***************************************************************************)
(* C28: after a support iteration that does not promote, the published     *)
(* next_fetch_from_seqnum is the seqnum rpc_only holds for the front of    *)
(* the FIFO, or highest + 1 when the FIFO is empty; and it is not greater  *)
(* than the seqnum of any digest the fetch returned that is not in the     *)
(* store.                                                                  *)
(***************************************************************************)
C28_SupportPublishesOldestUnconfirmed ==
    [][(SupportIteration /\ pc' = "support")
        => /\ next_fetch_from_seqnum' =
                  IF rpc_only_digests_timestamps' # <<>>
                  THEN rpc_only_digests'[Head(rpc_only_digests_timestamps').digest]
                  ELSE fetch_digests(fetch_from_seqnum).seq_num + 1
           /\ \A d \in Range(fetch_digests(fetch_from_seqnum).digests) :
                  d \notin TxsDigests
                      => next_fetch_from_seqnum' <= SeqnumOf(d)]_vars

(***************************************************************************)
(* C29: at the end of every support iteration db_only and the keys of      *)
(* rpc_only are disjoint; rpc_only holds only digests seen on RPC and not  *)
(* delivered by the store, so a digest the store delivers is no longer a   *)
(* key of rpc_only; db_only holds only digests delivered by the store and  *)
(* not returned by RPC.                                                    *)
(***************************************************************************)
C29_ReconciliationSetsKeepMeaning ==
    [][(SupportIteration /\ pc' \in {"support", "promote_is_leader"})
        => LET new_rpc_digests ==
                   Range(fetch_digests(fetch_from_seqnum).digests)
           IN  /\ db_only_digests' \cap DOMAIN rpc_only_digests' = {}
               /\ DOMAIN rpc_only_digests'
                      \subseteq DOMAIN rpc_only_digests \cup new_rpc_digests
               /\ DOMAIN rpc_only_digests' \cap StoreStream = {}
               /\ db_only_digests' \subseteq StoreStream
               /\ db_only_digests' \cap new_rpc_digests = {}]_vars

(***************************************************************************)
(* Claims about the failures of the store, checked under Spec.             *)
(***************************************************************************)
\* the in-memory state of the two loops
LoopLocals ==
    <<fetch_from_seqnum, digests, latest_db_digest, db_only_digests,
      rpc_only_digests, rpc_only_digests_timestamps>>

(***************************************************************************)
(* C30: when the store statement of an iteration fails while its RPC call  *)
(* has returned, the in-memory state is left as it is and the statement is *)
(* run once more with the same arguments: the leader hands the same        *)
(* digests to insert_digests, the support selects since the same           *)
(* latest_db_digest.  After a retry that succeeds the iteration goes on    *)
(* with the RPC result of the join; after a reconnect or a retry that      *)
(* fails the process has failed, and no retry follows a retry.             *)
(***************************************************************************)
C30_StoreFailureRetriedOnce ==
    [][/\ (pc' = "leader_retry" /\ LeaderInsert)
           => /\ UNCHANGED <<LoopLocals, next_fetch_from_seqnum>>
              /\ rpc_call' # <<>>
              /\ ~rpc_call'[1].err
                     => rpc_call'[1] = RpcOk(fetch_digests(fetch_from_seqnum))
       /\ LeaderRetry
           => /\ pc' \in {"leader_fetch", "failed"}
              /\ Len(handed') <= Len(handed) + 1
              /\ Len(handed') > Len(handed)
                     => /\ Last(handed').retry
                        /\ ~Last(handed).retry
                        /\ Last(handed').batch = Last(handed).batch
              /\ pc' = "leader_fetch"
                     => /\ UNCHANGED <<LoopLocals, next_fetch_from_seqnum,
                                       rpc_call>>
                        /\ Len(handed') = Len(handed) + 1
                        /\ tbl_txs' = insert_digests(digests)
       /\ (rpc_call # <<>> /\ LeaderFetch)
           => IF rpc_call[1].err
              THEN pc' = "failed"
              ELSE /\ pc' = "leader_insert"
                   /\ digests' = rpc_call[1].digests
                   /\ fetch_from_seqnum' = rpc_call[1].seq_num + 1
       /\ (pc' = "support_retry" /\ SupportIteration)
           => /\ UNCHANGED <<LoopLocals, next_fetch_from_seqnum, tbl_txs>>
              /\ rpc_call' = <<RpcOk(fetch_digests(fetch_from_seqnum))>>
       /\ SupportRetry
           => /\ pc' \in {"support", "promote_is_leader", "failed"}
              /\ pc' # "failed"
                     => LET new_db_digests ==
                                select_digests_since_exclusive(tbl_txs,
                                    latest_db_digest)
                        IN  /\ latest_db_digest' =
                                   IF new_db_digests # <<>>
                                   THEN Last(new_db_digests)
                                   ELSE latest_db_digest
                            /\ db_only_digests' =
                                   (db_only_digests \cup Range(new_db_digests))
                                       \ {z.digest : z \in
                                             Range(ZipSeqnums(
                                                 fetch_from_seqnum,
                                                 rpc_call[1].seq_num,
                                                 rpc_call[1].digests))}
                            /\ DOMAIN rpc_only_digests'
                                   \subseteq DOMAIN rpc_only_digests
                                       \cup Range(rpc_call[1].digests)
                            /\ (pc' = "support"
                                  /\ rpc_only_digests_timestamps' = <<>>)
                                   => next_fetch_from_seqnum' =
                                          rpc_call[1].seq_num + 1
                            /\ UNCHANGED <<fetch_from_seqnum, tbl_txs>>]_vars

\* a retried insert has succeeded and the leader loop has gone on with the
\* RPC result of the join, fetched before the node moved on
C30_Witness ==
    /\ pc = "leader_insert"
    /\ handed # <<>>
    /\ Last(handed).retry
    /\ Last(handed).by_leader
    /\ digests # <<>>
    /\ SeqnumOf(Last(digests)) + 1 < total
    /\ Len(digests) < FETCH_TX_DIGESTS_BATCH

(***************************************************************************)
(* The support's reads of the store on their own (support.rs), next to a   *)
(* writer of table `txs`: the bootstrap select, then the select of each    *)
(* iteration with its retry.  initial_db_only_digests keeps the result of  *)
(* the bootstrap, db_stream the results of the later selects, one after    *)
(* the other.                                                              *)
(***************************************************************************)
streamRest ==
    <<total, tbl_digests, is_leader, next_fetch_from_seqnum, spawned_as,
      fetch_from_seqnum, digests, rpc_only_digests,
      rpc_only_digests_timestamps, handed, rpc_call, boot_seqnum, drained, ppc,
      claimed, ids_to_mark_processed, puller_txs, callVars, interestVars,
      initial_seq_num, query>>

\* lines 39-45 and 242-269: initial_db_digests and what start keeps of it
StreamBoot ==
    /\ pc = "stream_boot"
    /\ \/ /\ latest_digest # 0
          /\ LET r == initial_db_digests(next_fetch_from_seqnum)
             IN  /\ latest_db_digest' = r.latest_db_digest
                 /\ db_only_digests' = Range(r.db_only_digests)
                 /\ initial_db_only_digests' = r.db_only_digests
          /\ pc' = "stream"
       \/ \* an RPC call or the select failed, or the node knows no transaction
          /\ pc' = "failed"
          /\ UNCHANGED <<latest_db_digest, db_only_digests,
                         initial_db_only_digests>>
    /\ UNCHANGED <<tbl_txs, db_stream, streamRest>>

\* lines 70-77: what the loop does with the result of a select
StreamTake(new_db_digests) ==
    /\ latest_db_digest' = IF new_db_digests # <<>> THEN Last(new_db_digests)
                           ELSE latest_db_digest
    /\ db_only_digests' = db_only_digests \cup Range(new_db_digests)
    /\ db_stream' = db_stream \o new_db_digests
    /\ pc' = "stream"

\* lines 57-68: the db half of the join
StreamSelect ==
    /\ pc = "stream"
    /\ \/ StreamTake(select_digests_since_exclusive(tbl_txs, latest_db_digest))
       \/ \* the select failed
          /\ pc' = "stream_retry"
          /\ UNCHANGED <<latest_db_digest, db_only_digests, db_stream>>
    /\ UNCHANGED <<tbl_txs, initial_db_only_digests, streamRest>>

\* lines 271-297: the connection is rebuilt and the select is run again
StreamRetry ==
    /\ pc = "stream_retry"
    /\ \/ StreamTake(select_digests_since_exclusive(tbl_txs, latest_db_digest))
       \/ \* "Cannot revive db connection", or the second select failed
          /\ pc' = "failed"
          /\ UNCHANGED <<latest_db_digest, db_only_digests, db_stream>>
    /\ UNCHANGED <<tbl_txs, initial_db_only_digests, streamRest>>

\* a tx-iterator leader writes a digest its node has come to know
StreamInsert ==
    /\ pc # "failed"
    /\ \E d \in AllDigests \ TxsDigests :
           tbl_txs' = InsertRows(tbl_txs, <<d>>, "other")
    /\ UNCHANGED <<pc, latest_db_digest, db_only_digests,
                   initial_db_only_digests, db_stream, streamRest>>

InitStream ==
    /\ total \in 0..MaxSeq
    /\ spawned_as = "support"
    /\ is_leader = FALSE
    /\ next_fetch_from_seqnum = total
    /\ pc = "stream_boot"
    /\ fetch_from_seqnum = 0
    /\ digests = <<>>
    /\ latest_db_digest = 0
    /\ db_only_digests = {}
    /\ handed = <<>>
    /\ rpc_call = <<>>
    /\ boot_seqnum = 0
    /\ rpc_only_digests = <<>>
    /\ rpc_only_digests_timestamps = <<>>
    /\ drained = NoResult
    /\ PullersIdle
    /\ CallOff
    /\ InterestOff
    /\ tbl_txs = <<>>
    /\ tbl_digests = <<>>
    /\ initial_seq_num = <<>>
    /\ query = <<>>
    /\ initial_db_only_digests = <<>>
    /\ db_stream = <<>>

NextStream ==
    \/ StreamBoot
    \/ StreamSelect
    \/ StreamRetry
    \/ StreamInsert
    \/ RpcAdvance

SpecStream == InitStream /\ [][NextStream]_vars

(***************************************************************************)
(* Claims about the bootstrap and the collections of the support, checked  *)
(* under Spec.                                                             *)
(***************************************************************************)
(***************************************************************************)
(* C31: the support's bootstrap takes as pivot the digest of the           *)
(* transaction at fetch_from_seqnum when the node has one, and the latest  *)
(* digest only when it has none; db_only is the inclusive select since the *)
(* pivot and latest_db_digest its last digest, or the pivot when the       *)
(* select is empty.                                                        *)
(***************************************************************************)
C31_BootstrapPivot ==
    [][(pc' = "support" /\ SupportBoot)
        => LET fetch_from_digest ==
                   IF next_fetch_from_seqnum < total
                   THEN DigestAt(next_fetch_from_seqnum)
                   ELSE latest_digest
               db_only ==
                   select_digests_since_inclusive(tbl_txs, fetch_from_digest)
           IN  /\ db_only_digests' = Range(db_only)
               /\ latest_db_digest' = IF db_only # <<>> THEN Last(db_only)
                                      ELSE fetch_from_digest]_vars

(***************************************************************************)
(* C32: every digest of the FIFO is a key of rpc_only, and the FIFO is in  *)
(* the order of the observations: no entry is older than the one before    *)
(* it.                                                                     *)
(***************************************************************************)
C32_PendingWithinRpcOnly ==
    /\ \A i \in 1..Len(rpc_only_digests_timestamps) :
           rpc_only_digests_timestamps[i].digest \in DOMAIN rpc_only_digests
    /\ \A i, j \in 1..Len(rpc_only_digests_timestamps) :
           i < j => rpc_only_digests_timestamps[i].age
                        >= rpc_only_digests_timestamps[j].age

\* the support is about to promote with two observations of different ages
\* in the FIFO
C32_Witness ==
    /\ pc = "promote_is_leader"
    /\ Len(rpc_only_digests_timestamps) >= 2
    /\ Head(rpc_only_digests_timestamps).age
           > Last(rpc_only_digests_timestamps).age

\* lines 79-91: the digests an iteration pushes to the FIFO, given the result
\* of its fetch
PushedDigests(call) ==
    {z.digest : z \in Range(ZipSeqnums(fetch_from_seqnum, call.seq_num,
                                       call.digests))} \ StoreStream

(***************************************************************************)
(* C33: the fetch of the next support iteration starts after the highest   *)
(* seqnum the fetch of this one returned, and a digest the iteration       *)
(* pushes to the FIFO has not been pushed by an earlier one.               *)
(***************************************************************************)
C33_SupportObservesOnce ==
    [][(pc' \in {"support", "promote_is_leader"} /\ SupportIteration)
        => LET call == fetch_digests(fetch_from_seqnum)
           IN  /\ fetch_from_seqnum' = call.seq_num + 1
               /\ PushedDigests(call) \cap DOMAIN rpc_only_digests = {}]_vars

(***************************************************************************)
(* Claims about the support's reads of the store, checked under            *)
(* SpecStream.                                                             *)
(***************************************************************************)
\* the digests of the rows with ids from..to, in the order of the ids
RowsBetween(tbl, from, to) == [i \in 1..(to - from + 1) |-> tbl[from + i - 1].digest]

C35_NoEmptyBatch ==
    /\ \A i \in 1..Len(handed) : handed[i].batch # <<>>
    /\ pc \in {"leader_insert", "leader_retry"} => digests # <<>>

\* a promoted support has inserted its outstanding digests, and the leader
\* loop it entered has retried an insert and fetched its next batch
C35_Witness ==
    /\ pc = "leader_insert"
    /\ \E i, j \in 1..Len(handed) :
           /\ i < j
           /\ ~handed[i].in_loop
           /\ handed[j].in_loop /\ handed[j].retry

====
